---- MODULE Spec2Model ----
(***************************************************************************)
(* Dual-arm self-collision monitoring: the Telemetry Client                *)
(* (robot_arm_client.py) and the Monitoring Server                         *)
(* (collision_detection_server.py) as one state machine.                   *)
(*                                                                         *)
(* Units.  An angle in radians is represented by the integer number of     *)
(* pi/180 rad it holds, so math.radians(d) of d degrees is d and math.pi   *)
(* is 180.  Velocities stay in degrees/second.                             *)
(*                                                                         *)
(* Stream sockets.  recv(4096) returns whatever bytes are pending, so one  *)
(* read of a queue holding several messages yields their concatenation,    *)
(* which is not one JSON document.  Messages are far below 4096 bytes and  *)
(* are not split.                                                          *)
(***************************************************************************)
EXTENDS Integers, Sequences, FiniteSets, TLC

\* ------------------------------------------------------------------ bounds
\* Messages a foreign peer keeps in flight: requests the server has not read
\* plus replies the peer has not read.
MaxPending == 2
\* Connection slots of the server (listen backlog plus live workers).
MaxConns == 2
\* The interpreter may switch threads after every SwitchEvery-th attribute
\* write of update_joints' loop (the program can switch after every one).
SwitchEvery == 8

\* Installations of a pair the registry is driven through.
MaxInstalls == 4

\* ------------------------------------------------------- program constants
NumJoints == 12
ArmJoints == 6
PiUnits == 180
ReconnectBackoff == 1

Left == "left_arm"
Right == "right_arm"
Arms == {Left, Right}
Conns == 1..MaxConns

\* The degrees and degrees/second the hardware SDK reports for each arm in
\* the model: different per arm and per quantity, so that a swap shows.
SdkDegrees(arm) == IF arm = Left THEN {10} ELSE {20}
SdkVelocities(arm) == IF arm = Left THEN {3} ELSE {4}

\* Python's None for a read that yielded no telemetry.
None == <<>>

\* ------------------------------------------------------------ hardware SDK
\* One HRIF_ReadActJointPos / HRIF_ReadActJointVel call: it raises, or returns
\* ret with n strings appended to result, each the text of number deg or
\* (numeric = FALSE) a text float() rejects.
SdkOutcome(raises, ret, n, numeric, deg) ==
    [raises |-> raises, ret |-> ret, n |-> n, numeric |-> numeric, deg |-> deg]

SdkOutcomes(vals) ==
    {SdkOutcome(FALSE, 0, ArmJoints, TRUE, d) : d \in vals}
      \cup {SdkOutcome(TRUE, 0, 0, TRUE, 0),
            SdkOutcome(FALSE, -1, 0, TRUE, 0),
            SdkOutcome(FALSE, 0, 0, TRUE, 0),
            SdkOutcome(FALSE, 0, ArmJoints - 1, TRUE, 0),
            SdkOutcome(FALSE, 0, ArmJoints + 1, TRUE, 0),
            SdkOutcome(FALSE, 0, ArmJoints, FALSE, 0)}

\* Arm.read_joint_positions: degrees to radians, joint 1 shifted by pi.
read_joint_positions(connected, o) ==
    IF ~connected THEN None
    ELSE IF o.raises THEN None
    ELSE IF o.ret # 0 THEN None
    ELSE IF o.n # ArmJoints THEN None
    ELSE IF ~o.numeric THEN None
    ELSE [i \in 1..ArmJoints |-> IF i = 1 THEN o.deg + PiUnits ELSE o.deg]

\* Arm.read_joint_velocities: degrees/second, forwarded unconverted.
read_joint_velocities(connected, o) ==
    IF ~connected THEN None
    ELSE IF o.raises THEN None
    ELSE IF o.ret # 0 THEN None
    ELSE IF o.n # ArmJoints THEN None
    ELSE IF ~o.numeric THEN None
    ELSE [i \in 1..ArmJoints |-> o.deg]

\* HRIF_GrpStop outcomes: return code 0, a non-zero code, or an exception.
StopOutcomes == {"ok", "errcode", "raises"}

\* Arm.group_stop: TRUE iff the SDK returned 0; an exception is caught.
group_stop(o) == o = "ok"

\* ------------------------------------------------------------ wire messages
\* A request body as the server's recv sees it.  body is "bad_bytes" (not
\* UTF-8), "bad_json" (text json.loads rejects), "non_object" (JSON that is no
\* object) or "object"; of an object, type is its 'type' value ("none" when
\* the key is missing) and has_pos / has_vel say whether 'joint_positions' /
\* 'joint_velocities' are present.
Request(body, type, has_pos, has_vel, pos, vel) ==
    [body |-> body, type |-> type, has_pos |-> has_pos, has_vel |-> has_vel,
     pos |-> pos, vel |-> vel]

RawRequest(body) == Request(body, "none", FALSE, FALSE, <<>>, <<>>)

\* The client's joint_data message (its 'units' key is ignored by the server).
JointDataMsg(all_pos, all_vel) ==
    Request("object", "joint_data", TRUE, TRUE, all_pos, all_vel)

PingMsg == Request("object", "ping", FALSE, FALSE, <<>>, <<>>)

\* A reply body as the client's recv sees it.  type is "none" when the object
\* has no 'type' key (the error payload); has_result says whether 'result' is
\* present.
NoResult ==
    [collision_detected |-> FALSE, colliding_pairs |-> <<>>, min_distance |-> 0,
     error |-> FALSE]

Reply(body, type, has_result, result, error) ==
    [body |-> body, type |-> type, has_result |-> has_result, result |-> result,
     error |-> error]

CollisionResultMsg(result) == Reply("object", "collision_result", TRUE, result, "")

PongMsg == Reply("object", "pong", FALSE, NoResult, "")

ErrorMsg(text) == Reply("object", "none", FALSE, NoResult, text)

\* What one recv returns for the pending requests q (q non-empty).
RecvRequests(q) ==
    IF Len(q) = 1 THEN q[1]
    ELSE IF \E i \in 1..Len(q) : q[i].body = "bad_bytes" THEN RawRequest("bad_bytes")
    ELSE RawRequest("bad_json")

\* What one recv returns for the pending replies q (q non-empty).
RecvReplies(q) ==
    IF Len(q) = 1 THEN q[1]
    ELSE Reply("bad_json", "none", FALSE, NoResult, "")

\* -------------------------------------------------------------------- state
VARIABLES
    armConnected,   \* client: Arm.connected of each arm, set at construction
    cpc,            \* client: position of the thread running start()
    running,        \* client: RobotArmClient.running
    csock,          \* client: RobotArmClient.client_socket
    collision_detected, \* client: RobotArmClient.collision_detected
    lastReq,        \* client: type of the last request written to csock
    cev,            \* client: what the last client step did, in order
    hbFailed,       \* client: a heartbeat failed and no joint_data went out since
    net,            \* the connections: both ends and the bytes in flight
    serverUp,       \* the server's listening socket is reachable
    srvStalled,     \* the server process makes no progress
    joint_pos,      \* server: self.joint_pos, a0..a11
    joint_vel,      \* server: self.joint_vel, a0..a11
    engineJoints,   \* engine: the joint state last pushed by dac.update_joints
    worker,         \* server: where each worker thread is inside handle_client
    spc,            \* server: position of the process, "new" .. "serving"
    jsonFile,       \* the file at json_config_path
    toolFile,       \* the file at tool_config_path
    config,         \* server: self.config, None or <<configuration>>
    init_params,    \* server: self.init_params, None or <<tuple>>
    tool_config,    \* server: self.tool_config, None before it is loaded
    ret,            \* server: what the last startup method returned
    dacCalls,       \* engine: the calls made at startup, in order
    registry        \* engine: the installed collision pairs

clientVars ==
    <<armConnected, cpc, running, csock, collision_detected, lastReq,
      cev, hbFailed>>
envVars == <<serverUp, srvStalled>>
srvVars == <<joint_pos, joint_vel, engineJoints, worker>>
bootVars ==
    <<spc, jsonFile, toolFile, config, init_params, tool_config, ret, dacCalls,
      registry>>
vars == <<clientVars, net, envVars, srvVars, bootVars>>

\* -------------------------------------------------------------- connections
\* One connection slot.  sstate is the server side: "Idle" (no connection),
\* "Backlog" (connected, not yet accepted), "Receiving" (a worker is in its
\* loop), "Closed" (the worker closed conn).  cliOpen: the peer's end is open.
\* reset: the connection was reset, each end's next call on it raises.
\* req / rep: messages written and not yet read, peer->server / server->peer.
IdleConn ==
    [owner |-> "none", sstate |-> "Idle", cliOpen |-> FALSE, reset |-> FALSE,
     req |-> <<>>, rep |-> <<>>]

NewConn(owner) ==
    [owner |-> owner, sstate |-> "Backlog", cliOpen |-> TRUE, reset |-> FALSE,
     req |-> <<>>, rep |-> <<>>]

\* A slot both ends have closed is free again.
Recycle(r) == IF r.sstate = "Closed" /\ ~r.cliOpen THEN IdleConn ELSE r

\* The server worker closes conn: pending requests are dropped.
ServerClose(r) == Recycle([r EXCEPT !.sstate = "Closed", !.req = <<>>])

\* The peer closes its socket: pending replies are dropped.
PeerCloseConn(r) == Recycle([r EXCEPT !.cliOpen = FALSE, !.rep = <<>>])

IdleSlots(n) == {c \in Conns : n[c].sstate = "Idle"}

FreshSlot(n) == CHOOSE c \in IdleSlots(n) : \A d \in IdleSlots(n) : c <= d

\* ------------------------------------------------------------------- engine
\* dac.check_collision: raises, or returns (result, collider_pair_list,
\* distance) with distance >= 0.
DacCheckOutcomes ==
    {[raises |-> TRUE, detected |-> FALSE, pairs |-> <<>>, dist |-> 0],
     [raises |-> FALSE, detected |-> FALSE, pairs |-> <<>>, dist |-> 5],
     [raises |-> FALSE, detected |-> TRUE, pairs |-> << <<6, 16>> >>, dist |-> 0]}

\* The joint positions init_dual_arm hands to the engine, in pi/180 rad.
InitialJointPos == <<0, 0, 0, 0, 0, 0, -90, 50, 140, 0, 0, 0>>
ZeroJoints == [i \in 1..NumJoints |-> 0]

\* ------------------------------------------------------------------- server
Min(a, b) == IF a <= b THEN a ELSE b

\* A worker thread blocked in conn.recv: `at` is its place in handle_client
\* ("recv", "write" inside the loop of update_joints, "push" before
\* dac.update_joints, "check" before check_collision), k the number of setattr
\* calls done, msg the request it is handling, pushed whether its
\* dac.update_joints went through, last what its latest check ran on.
IdleWorker ==
    [at |-> "recv", k |-> 0, msg |-> RawRequest("none"), pushed |-> FALSE,
     last |-> "none"]

\* The loop of update_joints makes 2 * 12 setattr calls: call 2i-1 writes
\* joint_pos.a(i-1), call 2i writes joint_vel.a(i-1).
NumWrites == 2 * NumJoints

\* A loop that clears the attributes it has not reached yet.
setattrs_clearing(jp, jv, joint_positions, joint_velocities, from, to) ==
    [joint_pos |-> [i \in 1..NumJoints |->
                      IF from < 2 * i - 1 /\ 2 * i - 1 <= to THEN joint_positions[i]
                      ELSE IF 2 * i - 1 > to THEN 0 ELSE jp[i]],
     joint_vel |-> [i \in 1..NumJoints |->
                      IF from < 2 * i /\ 2 * i <= to THEN joint_velocities[i]
                      ELSE IF 2 * i > to THEN 0 ELSE jv[i]]]

\* The setattr calls number from+1 .. to of update_joints' loop on the
\* shared self.joint_pos and self.joint_vel.
setattrs(jp, jv, joint_positions, joint_velocities, from, to) ==
    [joint_pos |-> [i \in 1..NumJoints |->
                      IF from < 2 * i - 1 /\ 2 * i - 1 <= to THEN joint_positions[i]
                      ELSE jp[i]],
     joint_vel |-> [i \in 1..NumJoints |->
                      IF from < 2 * i /\ 2 * i <= to THEN joint_velocities[i]
                      ELSE jv[i]]]

\* Where the interpreter may switch threads inside the loop: after every
\* SwitchEvery-th setattr call, and at its end.
SwitchPoints(k) ==
    {j \in (k + 1)..NumWrites : j = NumWrites \/ j % SwitchEvery = 0}

\* What a check ran on, seen from the request the worker was handling.
RanOn(eng, msg) ==
    LET own == {i \in 1..NumJoints : eng.pos[i] = msg.pos[i]}
               \cup {NumJoints + i : i \in {i \in 1..NumJoints : eng.vel[i] = msg.vel[i]}}
    IN  IF Cardinality(own) = NumWrites THEN "own"
        ELSE IF own = {} THEN "foreign"
        ELSE "mixed"

\* CollisionDetectionServer.update_joints: a0..a11 are written one by one,
\* position before velocity; an IndexError on a short vector (or a failure of
\* dac.update_joints) is caught and leaves what was written so far.
update_joints(jp, jv, eng, joint_positions, joint_velocities, dacRaises) ==
    LET m == Min(Min(Len(joint_positions), Len(joint_velocities)), NumJoints)
        kp == IF m < NumJoints /\ Len(joint_positions) > m THEN m + 1 ELSE m
        np == [i \in 1..NumJoints |-> IF i <= kp THEN joint_positions[i] ELSE jp[i]]
        nv == [i \in 1..NumJoints |-> IF i <= m THEN joint_velocities[i] ELSE jv[i]]
    IN  [joint_pos |-> np, joint_vel |-> nv,
         engine |-> IF m = NumJoints /\ ~dacRaises
                    THEN [pos |-> np, vel |-> nv] ELSE eng]

\* The branches of handle_client's loop body.  Each takes and returns the
\* worker's outcome: close = an exception left the inner try (it catches only
\* json.JSONDecodeError), reply = the messages handed to conn.sendall.

\* A check that reports -1 for the distance when the engine raised.
check_collision_negative_fallback(o) ==
    IF o.raises
    THEN [collision_detected |-> FALSE, colliding_pairs |-> <<>>,
          min_distance |-> -1, error |-> TRUE]
    ELSE [collision_detected |-> o.detected, colliding_pairs |-> o.pairs,
          min_distance |-> o.dist, error |-> FALSE]

\* A check that reports a collision when the engine raised.
check_collision_fail_safe(o) ==
    IF o.raises
    THEN [collision_detected |-> TRUE, colliding_pairs |-> <<>>,
          min_distance |-> 0, error |-> TRUE]
    ELSE [collision_detected |-> o.detected, colliding_pairs |-> o.pairs,
          min_distance |-> o.dist, error |-> FALSE]

\* CollisionDetectionServer.check_collision: the verdict dict of the reply.
\* (The copies kept on self are written here and read nowhere.)
check_collision(o) ==
    IF o.raises
    THEN [collision_detected |-> FALSE, colliding_pairs |-> <<>>,
          min_distance |-> 0, error |-> TRUE]
    ELSE [collision_detected |-> o.detected, colliding_pairs |-> o.pairs,
          min_distance |-> o.dist, error |-> FALSE]

\* type == 'joint_data': a missing key raises KeyError before anything is
\* updated; otherwise update, check, reply.
OnJointData(data, same, dacRaises, chk) ==
    IF ~data.has_pos \/ ~data.has_vel THEN [same EXCEPT !.close = TRUE]
    ELSE LET u == update_joints(same.joint_pos, same.joint_vel, same.engine,
                                data.pos, data.vel, dacRaises)
         IN  [close |-> FALSE, reply |-> <<CollisionResultMsg(check_collision(chk))>>,
              joint_pos |-> u.joint_pos, joint_vel |-> u.joint_vel,
              engine |-> u.engine]

\* A ping branch that answers nothing.
OnPingSilent(same) == same

\* type == 'ping'.
OnPing(same) == [same EXCEPT !.reply = <<PongMsg>>]

\* Any other type, or none: the if/elif has no else, nothing is sent.
OnOtherType(same) == same

\* except json.JSONDecodeError.
OnJSONDecodeError(same) == [same EXCEPT !.reply = <<ErrorMsg("Invalid JSON format")>>]

\* The body of handle_client's loop for one non-empty read `data`.
\* data.decode raises UnicodeDecodeError on bad bytes and .get raises
\* AttributeError on a JSON value that is no object; neither is caught by the
\* inner try.
Dispatch(data, jp, jv, eng, dacRaises, chk) ==
    LET same == [close |-> FALSE, reply |-> <<>>, joint_pos |-> jp, joint_vel |-> jv,
                 engine |-> eng]
    IN  IF data.body = "bad_bytes" THEN [same EXCEPT !.close = TRUE]
        ELSE IF data.body = "bad_json" THEN OnJSONDecodeError(same)
        ELSE IF data.body = "non_object" THEN [same EXCEPT !.close = TRUE]
        ELSE IF data.type = "joint_data" THEN OnJointData(data, same, dacRaises, chk)
        ELSE IF data.type = "ping" THEN OnPing(same)
        ELSE OnOtherType(same)

\* start(): the accept loop takes connection c and starts its worker thread.
Accept(c) ==
    /\ spc = "serving"
    /\ ~srvStalled
    /\ net[c].sstate = "Backlog"
    /\ net' = [net EXCEPT ![c].sstate = "Receiving"]
    /\ UNCHANGED <<clientVars, envVars, srvVars, bootVars>>

\* handle_client: one pass of the worker's loop on connection c, from recv to
\* sendall and the loop test after it.  recv raises on a reset connection and
\* returns b'' once the peer has closed and nothing is pending; sendall raises
\* on a reset connection and may raise when the peer has already closed.  A
\* worker that was blocked in recv when stop() cleared `running` still handles
\* what it reads, and leaves the loop afterwards.
HandleClient(c) ==
    /\ spc \in {"serving", "stopped"}
    /\ ~srvStalled
    /\ net[c].sstate = "Receiving"
    /\ net[c].reset \/ net[c].req # <<>> \/ ~net[c].cliOpen
    /\ IF net[c].reset \/ net[c].req = <<>>
       THEN /\ net' = [net EXCEPT ![c] = ServerClose(net[c])]
            /\ UNCHANGED srvVars
       ELSE \E dacRaises \in BOOLEAN, chk \in DacCheckOutcomes, sendRaises \in BOOLEAN :
              LET d == Dispatch(RecvRequests(net[c].req), joint_pos, joint_vel,
                                engineJoints, dacRaises, chk)
                  lost == d.reply # <<>> /\ ~net[c].cliOpen
              IN  /\ sendRaises => lost
                  /\ joint_pos' = d.joint_pos
                  /\ joint_vel' = d.joint_vel
                  /\ engineJoints' = d.engine
                  /\ worker' = worker
                  /\ net' = [net EXCEPT ![c] =
                       IF d.close \/ sendRaises THEN ServerClose(net[c])
                       ELSE LET sent == [net[c] EXCEPT !.req = <<>>,
                                          !.rep = IF net[c].cliOpen
                                                  THEN net[c].rep \o d.reply
                                                  ELSE <<>>]
                            IN  IF spc = "stopped" THEN ServerClose(sent) ELSE sent]
    /\ UNCHANGED <<clientVars, envVars, bootVars>>

\* ------------------------------------------------------------ client: socket
NoSock == [kind |-> "None", conn |-> 0]
UnconnectedSock == [kind |-> "Unconnected", conn |-> 0]
OpenSock(c) == [kind |-> "Open", conn |-> c]

\* RobotArmClient.connect_to_server: a new socket object replaces
\* client_socket before connect() is tried, so a failed attempt leaves an
\* unconnected socket behind, not None.
connect_to_server(n, up) ==
    IF up /\ IdleSlots(n) # {}
    THEN LET c == FreshSlot(n)
         IN  [ok |-> TRUE, sock |-> OpenSock(c),
              net |-> [n EXCEPT ![c] = NewConn("client")]]
    ELSE [ok |-> FALSE, sock |-> UnconnectedSock, net |-> n]

\* RobotArmClient.disconnect: close() and forget the socket, if there is one.
disconnect(sock, n) ==
    [sock |-> NoSock,
     net |-> IF sock.kind = "Open"
             THEN [n EXCEPT ![sock.conn] = PeerCloseConn(n[sock.conn])]
             ELSE n]

\* What a client step did: ev names it, arg is the arm or the reply type.
\* secs is the time slept, 0 for a step that does not sleep.
Ev(e) == [ev |-> e, arg |-> "-", ok |-> TRUE, secs |-> 0]
ArgEv(e, a, ok) == [ev |-> e, arg |-> a, ok |-> ok, secs |-> 0]
SleepEv(secs) == [ev |-> "sleep", arg |-> "-", ok |-> TRUE, secs |-> secs]

\* A reconnect that closes the socket and sleeps but never connects again.
reconnect_without_connect(sock, n, up) ==
    LET d == disconnect(sock, n)
    IN  [sock |-> d.sock, net |-> d.net,
         ev |-> <<Ev("disconnect"), SleepEv(ReconnectBackoff),
                  ArgEv("connect", "-", FALSE)>>]

\* RobotArmClient.reconnect: disconnect, sleep the backoff, connect once.
reconnect(sock, n, up) ==
    LET d == disconnect(sock, n)
        r == connect_to_server(d.net, up)
    IN  [sock |-> r.sock, net |-> r.net,
         ev |-> <<Ev("disconnect"), SleepEv(ReconnectBackoff),
                  ArgEv("connect", "-", r.ok)>>]

\* client_socket.sendall(msg): the outcomes.  It raises on None, on a socket
\* that never connected and on a reset connection; once the server has closed
\* its end the write raises or is accepted and lost.
sendall(sock, n, msg) ==
    IF sock.kind # "Open" THEN {[ok |-> FALSE, net |-> n]}
    ELSE IF n[sock.conn].reset THEN {[ok |-> FALSE, net |-> n]}
    ELSE IF n[sock.conn].sstate = "Closed"
    THEN {[ok |-> FALSE, net |-> n], [ok |-> TRUE, net |-> n]}
    ELSE {[ok |-> TRUE,
           net |-> [n EXCEPT ![sock.conn].req = Append(n[sock.conn].req, msg)]]}

\* client_socket.recv(4096): the outcomes; none while the call blocks.  No
\* timeout is ever set on the socket, so the call returns only with data,
\* with b'' or an error after the server closed, or with an error on a reset.
recv(sock, n) ==
    LET nodata == Reply("none", "none", FALSE, NoResult, "")
    IN  IF sock.kind # "Open" THEN {[kind |-> "raises", data |-> nodata, net |-> n]}
        ELSE IF n[sock.conn].reset
        THEN {[kind |-> "raises", data |-> nodata, net |-> n]}
        ELSE IF n[sock.conn].rep # <<>>
        THEN {[kind |-> "data", data |-> RecvReplies(n[sock.conn].rep),
               net |-> [n EXCEPT ![sock.conn].rep = <<>>]]}
        ELSE IF n[sock.conn].sstate = "Closed"
        THEN {[kind |-> "empty", data |-> nodata, net |-> n],
              [kind |-> "raises", data |-> nodata, net |-> n]}
        ELSE {}

\* The position the client thread is at once a request of type t is written:
\* the recv that follows the sendall in the same method.
AwaitReplyNoWaitForPong(t) == IF t = "joint_data" THEN "tel_recv" ELSE "tick"
AwaitReply(t) == IF t = "joint_data" THEN "tel_recv" ELSE "hb_recv"

\* ------------------------------------------------------- client: collisions
\* A variant that gives up after a failed stop of the left arm.
emergency_stop_until_failure(connected, sl, sr) ==
    IF connected[Left] /\ ~group_stop(sl)
    THEN <<ArgEv("stop", Left, FALSE)>>
    ELSE (IF connected[Left] THEN <<ArgEv("stop", Left, TRUE)>> ELSE <<>>)
           \o (IF connected[Right] THEN <<ArgEv("stop", Right, group_stop(sr))>>
               ELSE <<>>)

\* RobotArmClient.emergency_stop: the left arm, then the right arm, each only
\* if connected, each whatever the other returned.
emergency_stop(connected, sl, sr) ==
    (IF connected[Left] THEN <<ArgEv("stop", Left, group_stop(sl))>> ELSE <<>>)
      \o (IF connected[Right] THEN <<ArgEv("stop", Right, group_stop(sr))>> ELSE <<>>)

\* RobotArmClient.handle_collision_result.
handle_collision_result(result, connected, sl, sr) ==
    IF result.collision_detected
    THEN [collision_detected |-> TRUE,
          ev |-> <<Ev("collision")>> \o emergency_stop(connected, sl, sr)]
    ELSE [collision_detected |-> FALSE, ev |-> <<Ev("clear")>>]

\* send_joint_data from the recv on: r is what recv returned.
OnJointReply(r, cd, connected, sl, sr) ==
    IF r.kind = "raises" THEN [collision_detected |-> cd, ev |-> <<Ev("recv_error")>>]
    ELSE IF r.kind = "empty" THEN [collision_detected |-> cd, ev |-> <<Ev("recv_empty")>>]
    ELSE IF r.data.body # "object"
    THEN [collision_detected |-> cd,
          ev |-> <<ArgEv("reply", r.data.type, TRUE), Ev("parse_error")>>]
    ELSE IF r.data.type = "collision_result"
    THEN IF ~r.data.has_result
         THEN [collision_detected |-> cd,
               ev |-> <<ArgEv("reply", r.data.type, TRUE), Ev("parse_error")>>]
         ELSE LET h == handle_collision_result(r.data.result, connected, sl, sr)
              IN  [collision_detected |-> h.collision_detected,
                   ev |-> <<ArgEv("reply", r.data.type, TRUE)>> \o h.ev]
    ELSE [collision_detected |-> cd, ev |-> <<ArgEv("reply", r.data.type, TRUE)>>]

\* ---------------------------------------------------------- client: actions
\* The data-completeness check of send_joint_data, positions only.
IncompletePositionsOnly(rd) == rd.left_pos = None \/ rd.right_pos = None

\* A completeness check that lets every frame through.
IncompleteNever(rd) == FALSE

\* The data-completeness check of send_joint_data.
Incomplete(rd) ==
    \/ rd.left_pos = None \/ rd.right_pos = None
    \/ rd.left_vel = None \/ rd.right_vel = None

\* start() up to the loop: one connection attempt; on failure start returns.
Start ==
    /\ cpc = "init"
    /\ LET r == connect_to_server(net, serverUp)
       IN  /\ csock' = r.sock
           /\ net' = r.net
           /\ running' = r.ok
           /\ cpc' = IF r.ok THEN "tick" ELSE "stopped"
           /\ cev' = <<ArgEv("connect", "-", r.ok)>>
    /\ UNCHANGED <<armConnected, collision_detected, lastReq, hbFailed,
                   envVars, srvVars, bootVars>>

\* What the position / velocity read of an arm can return, over every SDK
\* outcome.
PositionReads(arm, connected) ==
    {IF connected THEN read_joint_positions(connected, o) ELSE None :
       o \in SdkOutcomes(SdkDegrees(arm))}

VelocityReads(arm, connected) ==
    {IF connected THEN read_joint_velocities(connected, o) ELSE None :
       o \in SdkOutcomes(SdkVelocities(arm))}

\* Whether each of the four reads returned telemetry.
Available(rd) ==
    /\ rd.left_pos # None
    /\ rd.right_pos # None
    /\ rd.left_vel # None
    /\ rd.right_vel # None

\* A send_joint_data that reconnects when its sendall raises.
SendJointDataWithReconnect(rd) ==
    /\ cpc = "tick"
    /\ running
    /\ IF Incomplete(rd)
       THEN /\ cev' = <<ArgEv("skip", "-", Available(rd))>>
            /\ cpc' = "hb_check"
            /\ UNCHANGED <<net, csock, lastReq, hbFailed>>
       ELSE \E s \in sendall(csock, net,
                             JointDataMsg(rd.left_pos \o rd.right_pos,
                                          rd.left_vel \o rd.right_vel)) :
              IF s.ok
              THEN /\ net' = s.net
                   /\ cev' = <<ArgEv("sent_joint_data", "-", Available(rd))>>
                   /\ cpc' = AwaitReply("joint_data")
                   /\ lastReq' = "joint_data"
                   /\ hbFailed' = (hbFailed /\ s.net = net)
                   /\ UNCHANGED csock
              ELSE LET rc == reconnect(csock, s.net, serverUp)
                   IN  /\ net' = rc.net
                       /\ csock' = rc.sock
                       /\ cev' = <<ArgEv("send_error", "-", Available(rd))>> \o rc.ev
                       /\ cpc' = "hb_check"
                       /\ UNCHANGED <<lastReq, hbFailed>>
    /\ UNCHANGED <<armConnected, running, collision_detected, envVars, srvVars, bootVars>>

\* send_joint_data up to and including sendall, rd being what the four reads
\* returned.  The step notes (ok) whether all four reads returned telemetry.
SendJointDataWith(rd) ==
    /\ cpc = "tick"
    /\ running
    /\ IF Incomplete(rd)
       THEN /\ cev' = <<ArgEv("skip", "-", Available(rd))>>
            /\ cpc' = "hb_check"
            /\ UNCHANGED <<net, lastReq, hbFailed>>
       ELSE \E s \in sendall(csock, net,
                             JointDataMsg(rd.left_pos \o rd.right_pos,
                                          rd.left_vel \o rd.right_vel)) :
              /\ net' = s.net
              /\ IF s.ok
                 THEN /\ cev' = <<ArgEv("sent_joint_data", "-", Available(rd))>>
                      /\ cpc' = AwaitReply("joint_data")
                      /\ lastReq' = "joint_data"
                      /\ hbFailed' = (hbFailed /\ s.net = net)
                 ELSE /\ cev' = <<ArgEv("send_error", "-", Available(rd))>>
                      /\ cpc' = "hb_check"
                      /\ UNCHANGED <<lastReq, hbFailed>>
    /\ UNCHANGED <<armConnected, running, csock, collision_detected, envVars, srvVars, bootVars>>

\* Every combination of results the four SDK reads can return.
AllReads ==
    [left_pos : PositionReads(Left, TRUE) \cup {None},
     right_pos : PositionReads(Right, TRUE) \cup {None},
     left_vel : VelocityReads(Left, TRUE) \cup {None},
     right_vel : VelocityReads(Right, TRUE) \cup {None}]

SendJointData ==
    \E lp \in PositionReads(Left, armConnected[Left]),
       rp \in PositionReads(Right, armConnected[Right]),
       lv \in VelocityReads(Left, armConnected[Left]),
       rv \in VelocityReads(Right, armConnected[Right]) :
        SendJointDataWith([left_pos |-> lp, right_pos |-> rp,
                           left_vel |-> lv, right_vel |-> rv])

\* A send_joint_data that lets a recv error end the loop of start().
RecvJointReplyRaising ==
    /\ cpc = "tel_recv"
    /\ \E r \in recv(csock, net), sl \in StopOutcomes, sr \in StopOutcomes :
         LET h == OnJointReply(r, collision_detected, armConnected, sl, sr)
         IN  /\ net' = r.net
             /\ collision_detected' = h.collision_detected
             /\ cev' = h.ev
             /\ cpc' = IF r.kind = "raises" THEN "stopped" ELSE "hb_check"
             /\ running' = (r.kind # "raises")
    /\ UNCHANGED <<armConnected, csock, lastReq, hbFailed, envVars, srvVars, bootVars>>

\* send_joint_data from recv to its return.
RecvJointReply ==
    /\ cpc = "tel_recv"
    /\ \E r \in recv(csock, net), sl \in StopOutcomes, sr \in StopOutcomes :
         LET h == OnJointReply(r, collision_detected, armConnected, sl, sr)
         IN  /\ net' = r.net
             /\ collision_detected' = h.collision_detected
             /\ cev' = h.ev
    /\ cpc' = "hb_check"
    /\ UNCHANGED <<armConnected, running, csock, lastReq, hbFailed,
                   envVars, srvVars, bootVars>>

\* The rest of one loop iteration of start(): the heartbeat test, and when
\* the heartbeat is due send_heartbeat up to and including sendall; an
\* exception there runs reconnect.  Then last_heartbeat is taken and the loop
\* sleeps one period.  Whether 5 s have passed since last_heartbeat is the
\* clock's choice: an iteration lasts as long as its recv blocks.
HeartbeatCheckWith(due) ==
    /\ cpc = "hb_check"
    /\ IF ~due
       THEN /\ cpc' = "tick"
            /\ cev' = <<Ev("period")>>
            /\ UNCHANGED <<csock, net, lastReq, hbFailed>>
       ELSE \E s \in sendall(csock, net, PingMsg) :
              IF s.ok
              THEN /\ net' = s.net
                   /\ cpc' = AwaitReply("ping")
                   /\ lastReq' = "ping"
                   /\ cev' = <<Ev("sent_ping")>>
                   /\ UNCHANGED <<csock, hbFailed>>
              ELSE LET rc == reconnect(csock, s.net, serverUp)
                   IN  /\ net' = rc.net
                       /\ csock' = rc.sock
                       /\ cpc' = "tick"
                       /\ hbFailed' = TRUE
                       /\ cev' = <<Ev("heartbeat_error")>> \o rc.ev
                       /\ UNCHANGED lastReq
    /\ UNCHANGED <<armConnected, running, collision_detected, envVars, srvVars, bootVars>>

HeartbeatCheck == \E due \in BOOLEAN : HeartbeatCheckWith(due)

\* send_heartbeat from recv to its return, then last_heartbeat is taken and
\* the loop sleeps one period.  A recv error or a reply json.loads rejects
\* runs reconnect; an empty read does not.
RecvHeartbeat ==
    /\ cpc = "hb_recv"
    /\ \E r \in recv(csock, net) :
         IF r.kind = "raises" \/ (r.kind = "data" /\ r.data.body # "object")
         THEN LET rc == reconnect(csock, r.net, serverUp)
              IN  /\ net' = rc.net
                  /\ csock' = rc.sock
                  /\ hbFailed' = TRUE
                  /\ cev' = <<Ev("heartbeat_error")>> \o rc.ev
         ELSE /\ net' = r.net
              /\ cev' = IF r.kind = "empty" THEN <<Ev("recv_empty")>>
                        ELSE <<ArgEv("reply", r.data.type, TRUE)>>
              /\ UNCHANGED <<csock, hbFailed>>
    /\ cpc' = "tick"
    /\ UNCHANGED <<armConnected, running, collision_detected, lastReq,
                   envVars, srvVars, bootVars>>

ClientNext == Start \/ SendJointData \/ RecvJointReply \/ HeartbeatCheck \/ RecvHeartbeat

\* ------------------------------------------------------- a foreign peer
\* Any other program that connects to the server's port and writes what it
\* likes: the bodies the protocol has to cope with.
PeerJoints == [i \in 1..NumJoints |-> 45]
ShortJoints == [i \in 1..3 |-> 45]

PeerRequests ==
    {RawRequest("bad_bytes"), RawRequest("bad_json"), RawRequest("non_object"),
     PingMsg,
     Request("object", "reset", FALSE, FALSE, <<>>, <<>>),
     Request("object", "none", FALSE, FALSE, <<>>, <<>>),
     Request("object", "joint_data", FALSE, TRUE, <<>>, PeerJoints),
     Request("object", "joint_data", TRUE, FALSE, PeerJoints, <<>>),
     JointDataMsg(PeerJoints, PeerJoints),
     JointDataMsg(ShortJoints, PeerJoints)}

PeerLive(c) ==
    /\ net[c].owner = "peer"
    /\ net[c].cliOpen
    /\ ~net[c].reset
    /\ net[c].sstate # "Closed"

PeerConnect ==
    /\ serverUp
    /\ \A c \in Conns : net[c].owner # "peer"
    /\ IdleSlots(net) # {}
    /\ net' = [net EXCEPT ![FreshSlot(net)] = NewConn("peer")]
    /\ UNCHANGED <<clientVars, envVars, srvVars, bootVars>>

PeerSend(c, m) ==
    /\ PeerLive(c)
    /\ Len(net[c].req) + Len(net[c].rep) < MaxPending
    /\ net' = [net EXCEPT ![c].req = Append(net[c].req, m)]
    /\ UNCHANGED <<clientVars, envVars, srvVars, bootVars>>

PeerRecv(c) ==
    /\ net[c].owner = "peer"
    /\ net[c].rep # <<>>
    /\ net' = [net EXCEPT ![c].rep = <<>>]
    /\ UNCHANGED <<clientVars, envVars, srvVars, bootVars>>

PeerClose(c) ==
    /\ net[c].owner = "peer"
    /\ net[c].cliOpen
    /\ net' = [net EXCEPT ![c] = PeerCloseConn(net[c])]
    /\ UNCHANGED <<clientVars, envVars, srvVars, bootVars>>

PeerNext ==
    \/ PeerConnect
    \/ \E c \in Conns : PeerRecv(c) \/ PeerClose(c) \/ \E m \in PeerRequests : PeerSend(c, m)

\* ------------------------------------------- workers, thread by thread
\* The worker threads share self.joint_pos, self.joint_vel and the engine,
\* and take no lock.  One joint_data request is handled in four kinds of
\* step, between which another worker may run.

\* The joint_data message of the peer on connection c: 12 + 12 values that
\* no other connection sends.
JointDataOf(c) ==
    JointDataMsg([i \in 1..NumJoints |-> 40 + c], [i \in 1..NumJoints |-> 40 + c])

\* A peer connects while others are connected.
RacePeerConnect(c) ==
    /\ serverUp
    /\ IdleSlots(net) # {}
    /\ c = FreshSlot(net)
    /\ net' = [net EXCEPT ![c] = NewConn("peer")]
    /\ UNCHANGED <<clientVars, envVars, srvVars, bootVars>>

\* A peer sends its joint_data and waits for the reply, as the client does.
RacePeerSend(c) ==
    /\ PeerLive(c)
    /\ net[c].req = <<>> /\ net[c].rep = <<>>
    /\ worker[c].at = "recv"
    /\ net' = [net EXCEPT ![c].req = <<JointDataOf(c)>>]
    /\ UNCHANGED <<clientVars, envVars, srvVars, bootVars>>

\* handle_client: conn.recv returns a joint_data request with both vectors,
\* json.loads and the type test pass, update_joints is entered.
WorkerRecv(c) ==
    /\ spc = "serving"
    /\ net[c].sstate = "Receiving"
    /\ ~net[c].reset
    /\ worker[c].at = "recv"
    /\ net[c].req # <<>>
    /\ LET data == RecvRequests(net[c].req)
       IN  /\ data.body = "object" /\ data.type = "joint_data"
           /\ Len(data.pos) >= NumJoints /\ Len(data.vel) >= NumJoints
           /\ worker' = [worker EXCEPT ![c] =
                           [at |-> "write", k |-> 0, msg |-> data,
                            pushed |-> FALSE, last |-> "none"]]
    /\ net' = [net EXCEPT ![c].req = <<>>]
    /\ UNCHANGED <<clientVars, envVars, joint_pos, joint_vel, engineJoints, bootVars>>

\* update_joints: the thread runs the loop on to the next place at which it
\* is switched out, or to the end of the loop.
WorkerWrite(c) ==
    /\ worker[c].at = "write"
    /\ \E j \in SwitchPoints(worker[c].k) :
         LET w == setattrs(joint_pos, joint_vel, worker[c].msg.pos,
                           worker[c].msg.vel, worker[c].k, j)
         IN  /\ joint_pos' = w.joint_pos
             /\ joint_vel' = w.joint_vel
             /\ worker' = [worker EXCEPT ![c].k = j,
                             ![c].at = IF j = NumWrites THEN "push" ELSE "write"]
    /\ UNCHANGED <<clientVars, net, envVars, engineJoints, bootVars>>

\* update_joints: dac.update_joints(self.joint_pos, self.joint_vel) hands the
\* engine the shared objects as they are now; its exception is caught.
WorkerPush(c) ==
    /\ worker[c].at = "push"
    /\ \E dacRaises \in BOOLEAN :
         /\ engineJoints' = IF dacRaises THEN engineJoints
                            ELSE [pos |-> joint_pos, vel |-> joint_vel]
         /\ worker' = [worker EXCEPT ![c].at = "check", ![c].pushed = ~dacRaises]
    /\ UNCHANGED <<clientVars, net, envVars, joint_pos, joint_vel, bootVars>>

\* check_collision on the state the engine holds now, and conn.sendall of
\* the verdict; the worker is back in conn.recv.
WorkerCheck(c) ==
    /\ worker[c].at = "check"
    /\ \E chk \in DacCheckOutcomes :
         net' = [net EXCEPT ![c].rep =
                   IF net[c].cliOpen
                   THEN net[c].rep \o <<CollisionResultMsg(check_collision(chk))>>
                   ELSE <<>>]
    /\ worker' = [worker EXCEPT ![c].at = "recv",
                    ![c].last = RanOn(engineJoints, worker[c].msg)]
    /\ UNCHANGED <<clientVars, envVars, joint_pos, joint_vel, engineJoints, bootVars>>

RaceNext ==
    \E c \in Conns :
        \/ Accept(c) \/ WorkerRecv(c) \/ WorkerWrite(c) \/ WorkerPush(c) \/ WorkerCheck(c)
        \/ RacePeerConnect(c) \/ RacePeerSend(c) \/ PeerRecv(c)

\* ------------------------------------------------- description documents
\* dict.get(key, default) on a key that is present (val) or absent.
Absent == [present |-> FALSE, val |-> <<>>]
AbsentNum == [present |-> FALSE, val |-> 0]
AbsentStr == [present |-> FALSE, val |-> ""]
Given(v) == [present |-> TRUE, val |-> v]

\* A list of n numbers, none of them zero.
Data(n) == [i \in 1..n |-> i]

\* d.get(key, default).
get(opt, default) == IF opt.present THEN opt.val ELSE default

\* The sections of a description document, each absent or a JSON object with
\* some of its keys.  A geometry list comes short, exact or over-long.
NoLozenge ==
    [present |-> FALSE, ref2local_frame |-> Absent, geometry |-> Absent,
     offset |-> Absent, type |-> AbsentStr]
NoCapsule ==
    [present |-> FALSE, start |-> Absent, end |-> Absent, radius |-> AbsentNum,
     type |-> AbsentStr]
NoBall ==
    [present |-> FALSE, offset |-> Absent, radius |-> AbsentNum, type |-> AbsentStr]
NoDH ==
    [present |-> FALSE, d1 |-> AbsentNum, d4 |-> AbsentNum, d6 |-> AbsentNum,
     a2 |-> AbsentNum]

LozengeSections ==
    {NoLozenge,
     [NoLozenge EXCEPT !.present = TRUE],
     [present |-> TRUE, ref2local_frame |-> Given(Data(2)), geometry |-> Given(Data(4)),
      offset |-> Absent, type |-> Given("lozenge")],
     [present |-> TRUE, ref2local_frame |-> Given(Data(7)), geometry |-> Given(Data(5)),
      offset |-> Given(Data(4)), type |-> Given("lozenge")]}

CapsuleSections ==
    {NoCapsule,
     [present |-> TRUE, start |-> Given(Data(1)), end |-> Given(Data(3)),
      radius |-> AbsentNum, type |-> AbsentStr],
     [present |-> TRUE, start |-> Absent, end |-> Given(Data(2)),
      radius |-> Given(9), type |-> Given("capsule")],
     [present |-> TRUE, start |-> Given(Data(4)), end |-> Given(Data(5)),
      radius |-> Given(9), type |-> Given("capsule")]}

BallSections ==
    {NoBall,
     [present |-> TRUE, offset |-> Given(Data(2)), radius |-> AbsentNum,
      type |-> Given("ball")],
     [present |-> TRUE, offset |-> Given(Data(4)), radius |-> Given(9),
      type |-> Given("ball")]}

\* "dual_arm" in rob_type_str: the values of 'RobType' that contain it.
DualArmNames == {"dual_arm", "hans_dual_arm_v2"}

\* 'RobType' and 'DH' of a document.
RobTypeAndDH ==
    {<<AbsentStr, NoDH>>,
     <<Given("dual_arm"), NoDH>>,
     <<Given("dual_arm"),
       [present |-> TRUE, d1 |-> Given(11), d4 |-> AbsentNum, d6 |-> Given(13),
        a2 |-> AbsentNum]>>,
     <<Given("hans_dual_arm_v2"),
       [present |-> TRUE, d1 |-> Given(11), d4 |-> Given(12), d6 |-> Given(13),
        a2 |-> Given(14)]>>,
     <<Given("Elfin"),
       [present |-> TRUE, d1 |-> Given(11), d4 |-> Given(12), d6 |-> Given(13),
        a2 |-> Given(14)]>>}

\* The file at json_config_path.  kind: "missing" (no such file),
\* "unparsable" (json.load rejects it), "non_object" (JSON, but no object),
\* "bad_section" (an object whose 'truck' is no object), "object".
Document(kind, rob, dh, lz, cap, ball) ==
    [kind |-> kind, RobType |-> rob, DH |-> dh,
     platform |-> lz[1], truck |-> lz[2], head |-> lz[3],
     base |-> cap[1], l_base |-> NoCapsule, r_base |-> NoCapsule,
     l_lowerArm |-> cap[2], l_elbow |-> cap[3],
     l_upperArm |-> cap[2], l_wrist |-> ball[1],
     r_lowerArm |-> cap[3], r_elbow |-> cap[2], r_upperArm |-> cap[3],
     r_wrist |-> ball[2]]

EmptyDocument(kind) ==
    Document(kind, AbsentStr, NoDH, <<NoLozenge, NoLozenge, NoLozenge>>,
             <<NoCapsule, NoCapsule, NoCapsule>>, <<NoBall, NoBall>>)

FullLozenge == CHOOSE s \in LozengeSections : s.offset.present
FullCapsule == CHOOSE s \in CapsuleSections : s.start.present /\ s.radius.present
FullBall == CHOOSE s \in BallSections : s.radius.present
FullDH ==
    [present |-> TRUE, d1 |-> Given(11), d4 |-> Given(12), d6 |-> Given(13),
     a2 |-> Given(14)]

FullDocument(kind) ==
    Document(kind, Given("dual_arm"), FullDH, <<FullLozenge, FullLozenge, FullLozenge>>,
             <<FullCapsule, FullCapsule, FullCapsule>>, <<FullBall, FullBall>>)

\* The object documents: the sections read into the engine's parameters vary
\* one by one, the others are all there or all missing.
ObjectDocuments ==
    {Document("object", rd[1], rd[2], <<l1, rest[1], rest[1]>>,
              <<c1, rest[2], rest[2]>>, <<b1, rest[3]>>) :
        rd \in RobTypeAndDH,
        l1 \in LozengeSections, c1 \in CapsuleSections, b1 \in BallSections,
        rest \in {<<NoLozenge, NoCapsule, NoBall>>,
                  <<FullLozenge, FullCapsule, FullBall>>}}

\* Documents that carry the keys "l_base" and "r_base", with and without a
\* "base" next to them.
ArmBaseDocuments ==
    LET l == [present |-> TRUE, start |-> Given(<<7, 7, 7>>), end |-> Given(<<8, 8, 8>>),
              radius |-> Given(3), type |-> Given("capsule")]
        r == [present |-> TRUE, start |-> Given(<<5, 5, 5>>), end |-> Given(<<6, 6, 6>>),
              radius |-> Given(4), type |-> Given("capsule")]
    IN  {[d EXCEPT !.l_base = l, !.r_base = r] :
           d \in {FullDocument("object"), EmptyDocument("object")}}

Documents ==
    ObjectDocuments
      \cup ArmBaseDocuments
      \cup {EmptyDocument("missing"), EmptyDocument("unparsable"),
            EmptyDocument("non_object"), FullDocument("bad_section")}

\* ------------------------------------------------- geometry configuration
\* RobotType.
Elfin == 0
DualArm == 2

\* BallModel(), CapsuleModel(), LozengeModelCo() as constructed.
BallModel == [offset |-> <<>>, radius |-> 0, type |-> ""]
CapsuleModel == [start |-> <<>>, end |-> <<>>, radius |-> 0, type |-> ""]
LozengeModelCo == [ref2local_frame |-> <<>>, offset |-> <<>>, geometry |-> <<>>, type |-> ""]

\* DualArmColliderConfiguration() as constructed.
DualArmColliderConfiguration ==
    [dh |-> <<>>, robType |-> DualArm,
     platform |-> LozengeModelCo, truck |-> LozengeModelCo, head |-> LozengeModelCo,
     L_base |-> CapsuleModel, L_lowerArm |-> CapsuleModel, L_elbow |-> CapsuleModel,
     L_upperArm |-> CapsuleModel, L_wrist |-> BallModel,
     R_base |-> CapsuleModel, R_lowerArm |-> CapsuleModel, R_elbow |-> CapsuleModel,
     R_upperArm |-> CapsuleModel, R_wrist |-> BallModel]

\* A configuration a caller has filled in before handing it to the loader.
FilledConfiguration ==
    LET lz == [ref2local_frame |-> Data(6), offset |-> Data(3), geometry |-> Data(4),
               type |-> "old"]
        cp == [start |-> Data(3), end |-> Data(3), radius |-> 5, type |-> "old"]
        bl == [offset |-> Data(3), radius |-> 5, type |-> "old"]
    IN  [dh |-> <<21, 22, 23, 24>>, robType |-> Elfin,
         platform |-> lz, truck |-> lz, head |-> lz,
         L_base |-> cp, L_lowerArm |-> cp, L_elbow |-> cp, L_upperArm |-> cp,
         L_wrist |-> bl,
         R_base |-> cp, R_lowerArm |-> cp, R_elbow |-> cp, R_upperArm |-> cp,
         R_wrist |-> bl]

\* ------------------------------------------------------------------ loader
\* The four assignments of one lozenge / capsule / ball section; s is what
\* json_data.get(key, {}) returned.
ReadLozenge(s) ==
    [ref2local_frame |-> get(s.ref2local_frame, <<>>),
     geometry |-> get(s.geometry, <<>>),
     offset |-> get(s.offset, <<>>),
     type |-> get(s.type, "")]

ReadCapsule(s) ==
    [start |-> get(s.start, <<>>), end |-> get(s.end, <<>>),
     radius |-> get(s.radius, 0), type |-> get(s.type, "")]

ReadBall(s) ==
    [offset |-> get(s.offset, <<>>), radius |-> get(s.radius, 0),
     type |-> get(s.type, "")]

\* A reading of 'DH' that does not look at 'RobType'.
ReadRobTypeAlwaysDH(doc, cfg) ==
    [cfg EXCEPT !.robType = DualArm,
                !.dh = <<get(doc.DH.d1, 0), get(doc.DH.d4, 0),
                         get(doc.DH.d6, 0), get(doc.DH.a2, 0)>>]

\* The robot type and DH parameters: only a 'RobType' containing "dual_arm"
\* writes them.
ReadRobType(doc, cfg) ==
    IF get(doc.RobType, "") \in DualArmNames
    THEN [cfg EXCEPT !.robType = DualArm,
                        !.dh = <<get(doc.DH.d1, 0), get(doc.DH.d4, 0),
                                 get(doc.DH.d6, 0), get(doc.DH.a2, 0)>>]
    ELSE cfg

\* A reading that assigns the sections the document has and leaves the
\* others as they were.
ReadObjectPresentOnly(doc, cfg) ==
    LET c == ReadRobType(doc, cfg)
    IN  [c EXCEPT
        !.platform = IF doc.platform.present THEN ReadLozenge(doc.platform) ELSE @,
        !.truck = IF doc.truck.present THEN ReadLozenge(doc.truck) ELSE @,
        !.head = IF doc.head.present THEN ReadLozenge(doc.head) ELSE @,
        !.L_base = IF doc.base.present THEN ReadCapsule(doc.base) ELSE @,
        !.L_lowerArm = IF doc.l_lowerArm.present THEN ReadCapsule(doc.l_lowerArm) ELSE @,
        !.L_elbow = IF doc.l_elbow.present THEN ReadCapsule(doc.l_elbow) ELSE @,
        !.L_upperArm = IF doc.l_upperArm.present THEN ReadCapsule(doc.l_upperArm) ELSE @,
        !.L_wrist = IF doc.l_wrist.present THEN ReadBall(doc.l_wrist) ELSE @,
        !.R_base = IF doc.base.present THEN ReadCapsule(doc.base) ELSE @,
        !.R_lowerArm = IF doc.r_lowerArm.present THEN ReadCapsule(doc.r_lowerArm) ELSE @,
        !.R_elbow = IF doc.r_elbow.present THEN ReadCapsule(doc.r_elbow) ELSE @,
        !.R_upperArm = IF doc.r_upperArm.present THEN ReadCapsule(doc.r_upperArm) ELSE @,
        !.R_wrist = IF doc.r_wrist.present THEN ReadBall(doc.r_wrist) ELSE @]

\* A reading that takes each arm's base from the arm's own key.
ReadObjectOwnBases(doc, cfg) ==
    [ReadRobType(doc, cfg) EXCEPT
        !.platform = ReadLozenge(doc.platform),
        !.truck = ReadLozenge(doc.truck),
        !.head = ReadLozenge(doc.head),
        !.L_base = ReadCapsule(doc.l_base),
        !.L_lowerArm = ReadCapsule(doc.l_lowerArm),
        !.L_elbow = ReadCapsule(doc.l_elbow),
        !.L_upperArm = ReadCapsule(doc.l_upperArm),
        !.L_wrist = ReadBall(doc.l_wrist),
        !.R_base = ReadCapsule(doc.r_base),
        !.R_lowerArm = ReadCapsule(doc.r_lowerArm),
        !.R_elbow = ReadCapsule(doc.r_elbow),
        !.R_upperArm = ReadCapsule(doc.r_upperArm),
        !.R_wrist = ReadBall(doc.r_wrist)]

\* The body of the loader's try for a document that is a JSON object: every
\* field of every section is assigned, a missing one with its default.  Both
\* arms' base is read from the key "base".
ReadObject(doc, cfg) ==
    [ReadRobType(doc, cfg) EXCEPT
        !.platform = ReadLozenge(doc.platform),
        !.truck = ReadLozenge(doc.truck),
        !.head = ReadLozenge(doc.head),
        !.L_base = ReadCapsule(doc.base),
        !.L_lowerArm = ReadCapsule(doc.l_lowerArm),
        !.L_elbow = ReadCapsule(doc.l_elbow),
        !.L_upperArm = ReadCapsule(doc.l_upperArm),
        !.L_wrist = ReadBall(doc.l_wrist),
        !.R_base = ReadCapsule(doc.base),
        !.R_lowerArm = ReadCapsule(doc.r_lowerArm),
        !.R_elbow = ReadCapsule(doc.r_elbow),
        !.R_upperArm = ReadCapsule(doc.r_upperArm),
        !.R_wrist = ReadBall(doc.r_wrist)]

\* A loader that clears the configuration when it fails.
read_model_clearing_on_failure(doc, cfg) ==
    IF doc.kind = "missing" THEN [err |-> "open", config |-> DualArmColliderConfiguration]
    ELSE IF doc.kind # "object"
    THEN [err |-> "parse", config |-> DualArmColliderConfiguration]
    ELSE [err |-> "none", config |-> ReadObject(doc, cfg)]

\* read_dual_arm_self_collision_model_from_json(file_path, config): the error
\* it raises ("open": FileNotFoundError, "parse": anything else, both as
\* RuntimeError with their own message) and the configuration afterwards.
\* json_data.get on a non-object raises before anything is assigned; a section
\* that is no object raises once the sections before it are assigned.
read_dual_arm_self_collision_model_from_json(doc, cfg) ==
    IF doc.kind = "missing" THEN [err |-> "open", config |-> cfg]
    ELSE IF doc.kind \in {"unparsable", "non_object"}
    THEN [err |-> "parse", config |-> cfg]
    ELSE IF doc.kind = "bad_section"
    THEN [err |-> "parse",
          config |-> [ReadRobType(doc, cfg) EXCEPT
                         !.platform = ReadLozenge(doc.platform)]]
    ELSE [err |-> "none", config |-> ReadObject(doc, cfg)]

\* CollisionDetectionServer.load_config: a new configuration is made and
\* handed to the loader; any exception is printed and turned into False.
load_config(doc) ==
    LET r == read_dual_arm_self_collision_model_from_json(doc, DualArmColliderConfiguration)
    IN  [ok |-> r.err = "none", err |-> r.err, config |-> <<r.config>>]

\* -------------------------------------------------------------- marshaller
\* s[:n].
Take(s, n) == SubSeq(s, 1, IF Len(s) < n THEN Len(s) ELSE n)

Zeros(n) == [i \in 1..n |-> 0]

\* An extend without the zero padding that follows it.
Unpadded(s, n) == Take(s, n)

\* params.extend(s[:n]); params += [0.0] * (n - len(s[:n])).
Padded(s, n) == Take(s, n) \o Zeros(n - Len(Take(s, n)))

\* ref2local_frame(6) + geometry(4) + offset(3).
build_lozenge_params(lozenge) ==
    Take(Padded(lozenge.ref2local_frame, 6) \o Padded(lozenge.geometry, 4)
           \o Padded(lozenge.offset, 3), 13)

\* start(3) + end(3) + radius(1).
build_capsule_params(capsule) ==
    Take(Padded(capsule.start, 3) \o Padded(capsule.end, 3) \o <<capsule.radius>>, 7)

\* offset(3) + radius(1).
build_wrist_params(wrist) ==
    Take(Padded(wrist.offset, 3) \o <<wrist.radius>>, 4)

\* The tuple convert_config stores in init_params.
InitParams(c) ==
    <<c.robType, Padded(c.dh, 4),
      build_lozenge_params(c.platform), build_lozenge_params(c.head),
      build_lozenge_params(c.truck),
      build_capsule_params(c.L_base), build_capsule_params(c.L_lowerArm),
      build_capsule_params(c.L_elbow), build_capsule_params(c.L_upperArm),
      build_wrist_params(c.L_wrist)>>

\* A conversion that pads the configuration's own DH list.
convert_config_in_place(cfg, params) ==
    IF cfg = None THEN [ok |-> FALSE, init_params |-> params, config |-> cfg]
    ELSE LET c == [cfg[1] EXCEPT !.dh = Padded(cfg[1].dh, 4)]
         IN  [ok |-> TRUE, init_params |-> <<InitParams(c)>>, config |-> <<c>>]

\* CollisionDetectionServer.convert_config: what it returns, init_params and
\* the configuration afterwards.  dh[:4] is a copy, so the padding touches no
\* list of the configuration; with no configuration the attribute access
\* raises and init_params stays.
convert_config(cfg, params) ==
    IF cfg = None THEN [ok |-> FALSE, init_params |-> params, config |-> cfg]
    ELSE [ok |-> TRUE, init_params |-> <<InitParams(cfg[1])>>, config |-> cfg]

\* ------------------------------------------------------- tool description
\* A tool section: 'L_tool' / 'R_tool', absent or an object with some of
\* 'L_tool_index' / 'R_tool_index' (index), 'start', 'end', 'radius'.
NoTool ==
    [present |-> FALSE, index |-> AbsentNum, start |-> Absent, end |-> Absent,
     radius |-> AbsentNum]

ToolSections ==
    {NoTool} \cup
    [present : {TRUE}, index : {AbsentNum, Given(7)},
     start : {Absent, Given(Data(3))}, end : {Absent, Given(Data(3))},
     radius : {AbsentNum, Given(5)}]

\* The file at tool_config_path.  kind: "missing", "unreadable" (open or
\* json.load raises), "array" / "scalar" (JSON, but no object), "object".
ToolDocument(kind, l, r) == [kind |-> kind, L_tool |-> l, R_tool |-> r]

ToolDocuments ==
    {ToolDocument("object", l, r) : l \in ToolSections, r \in ToolSections}
      \cup {ToolDocument(k, NoTool, NoTool) :
              k \in {"missing", "unreadable", "array", "scalar"}}

\* CollisionDetectionServer.load_tool_config: the parsed document, {} when
\* the file is missing or cannot be read.
load_tool_config(file) ==
    IF file.kind \in {"missing", "unreadable"} THEN ToolDocument("object", NoTool, NoTool)
    ELSE file

\* ----------------------------------------------------- engine, at startup
\* One call into the engine: its name, its arguments, whether it raised.
DacCall(op, args, raised) == [op |-> op, args |-> args, raised |-> raised]

\* The defaults of set_tool_collision_models: the attachment joints and the
\* radius 0.02, in hundredths.
LeftToolJoint == 6
RightToolJoint == 16
ToolRadius == 2

\* The arguments of dac.set_toolcollisionmodel for one side: the section's
\* fields, each with its default, or the defaults when the key is missing.
\* (`key in tool_config` is False for every key when the document is a list.)
ToolArgs(tools, tool, joint) ==
    IF tools.kind = "object" /\ tool.present
    THEN <<get(tool.index, joint), get(tool.start, Zeros(3)), get(tool.end, Zeros(3)),
           get(tool.radius, ToolRadius)>>
    ELSE <<joint, Zeros(3), Zeros(3), ToolRadius>>

\* A tool setup whose right-arm default is the left arm's joint.
set_tool_collision_models_left_joint(tools, raisesAt) ==
    LET l == DacCall("set_toolcollisionmodel",
                     ToolArgs(tools, tools.L_tool, LeftToolJoint), raisesAt = 1)
        r == DacCall("set_toolcollisionmodel",
                     ToolArgs(tools, tools.R_tool, LeftToolJoint), raisesAt = 2)
    IN  IF tools.kind = "scalar" THEN [ok |-> FALSE, calls |-> <<>>]
        ELSE IF raisesAt = 1 THEN [ok |-> FALSE, calls |-> <<l>>]
        ELSE [ok |-> raisesAt # 2, calls |-> <<l, r>>]

\* CollisionDetectionServer.set_tool_collision_models: the left arm, then the
\* right arm; the raisesAt-th engine call raises (0: none).  On a document
\* that is a number, `in` raises before any call.  Any exception ends the
\* method with False.
set_tool_collision_models(tools, raisesAt) ==
    LET l == DacCall("set_toolcollisionmodel",
                     ToolArgs(tools, tools.L_tool, LeftToolJoint), raisesAt = 1)
        r == DacCall("set_toolcollisionmodel",
                     ToolArgs(tools, tools.R_tool, RightToolJoint), raisesAt = 2)
    IN  IF tools.kind = "scalar" THEN [ok |-> FALSE, calls |-> <<>>]
        ELSE IF raisesAt = 1 THEN [ok |-> FALSE, calls |-> <<l>>]
        ELSE [ok |-> raisesAt # 2, calls |-> <<l, r>>]

\* CollisionDetectionServer.init_dual_arm: joint_pos is written first, then
\* the engine is called with init_params and joint_pos.  Without init_params
\* the subscript raises before the call.
init_dual_arm(params, raises) ==
    IF params = None THEN [ok |-> FALSE, calls |-> <<>>]
    ELSE [ok |-> ~raises,
          calls |-> <<DacCall("init_dual_arm", params[1] \o <<InitialJointPos>>,
                              raises)>>]

\* The list collision_pairs of add_collision_pairs.
collision_pairs ==
    << <<-1, 2>>, <<-1, 3>>, <<-1, 4>>, <<-1, 5>>, <<-1, 6>>,
       <<-1, 12>>, <<-1, 13>>, <<-1, 14>>, <<-1, 15>>, <<-1, 16>>,
       <<1, 16>>, <<6, 16>>, <<6, 11>> >>

\* An installation that walks the list from its end.
add_collision_pairs_backwards(raisesAt) ==
    LET n == IF raisesAt = 0 THEN Len(collision_pairs) ELSE raisesAt
    IN  [ok |-> raisesAt = 0,
         calls |-> [i \in 1..n |->
                      DacCall("set_collision_Pair",
                              collision_pairs[Len(collision_pairs) + 1 - i], i = raisesAt)]]

\* CollisionDetectionServer.add_collision_pairs: one engine call per pair, in
\* list order, up to the call that raises (raisesAt, 0: none).
add_collision_pairs(raisesAt) ==
    LET n == IF raisesAt = 0 THEN Len(collision_pairs) ELSE raisesAt
    IN  [ok |-> raisesAt = 0,
         calls |-> [i \in 1..n |->
                      DacCall("set_collision_Pair", collision_pairs[i], i = raisesAt)]]

\* CollisionDetectionServer.check_collision_pairs.
check_collision_pairs(raises) ==
    [ok |-> ~raises, calls |-> <<DacCall("check_collision_Pair", <<>>, raises)>>]

\* What a method returned: fn the method, ok its result, stage the step of
\* initialize that made it return, err the loader's error if it raised one.
Returned(fn, ok, stage, err) == [fn |-> fn, ok |-> ok, stage |-> stage, err |-> err]
NoReturn == Returned("none", TRUE, "none", "none")

\* The outcome of initialize(): what it returned and the fields it wrote.
Initialized(ok, stage, err, cfg, params, calls) ==
    [ok |-> ok, stage |-> stage, err |-> err, config |-> cfg,
     init_params |-> params, calls |-> calls]

\* An initialize that goes on after a failed load_config.
initialize_past_load_failure(doc, tools, params, rInit, rTool, rPair, rCheck) ==
    LET lc == load_config(doc)
        cc == convert_config(lc.config, params)
        ia == init_dual_arm(cc.init_params, rInit)
        st == set_tool_collision_models(tools, rTool)
        ap == add_collision_pairs(rPair)
        cp == check_collision_pairs(rCheck)
    IN  Initialized(TRUE, "done", lc.err, cc.config, cc.init_params,
                    ia.calls \o st.calls \o ap.calls \o cp.calls)

\* An initialize that gives up when the pair verification fails.
initialize_strict_verification(doc, tools, params, rInit, rTool, rPair, rCheck) ==
    LET lc == load_config(doc)
        cc == convert_config(lc.config, params)
        ia == init_dual_arm(cc.init_params, rInit)
        st == set_tool_collision_models(tools, rTool)
        ap == add_collision_pairs(rPair)
        cp == check_collision_pairs(rCheck)
    IN  IF ~lc.ok
        THEN Initialized(FALSE, "load_config", lc.err, lc.config, params, <<>>)
        ELSE IF ~cc.ok
        THEN Initialized(FALSE, "convert_config", "none", cc.config, cc.init_params, <<>>)
        ELSE IF ~ia.ok
        THEN Initialized(FALSE, "init_dual_arm", "none", cc.config, cc.init_params, ia.calls)
        ELSE IF ~st.ok
        THEN Initialized(FALSE, "set_tool_collision_models", "none", cc.config,
                         cc.init_params, ia.calls \o st.calls)
        ELSE IF ~ap.ok
        THEN Initialized(FALSE, "add_collision_pairs", "none", cc.config,
                         cc.init_params, ia.calls \o st.calls \o ap.calls)
        ELSE Initialized(cp.ok, IF cp.ok THEN "done" ELSE "check_collision_pairs", "none",
                         cc.config, cc.init_params,
                         ia.calls \o st.calls \o ap.calls \o cp.calls)

\* CollisionDetectionServer.initialize: load_config, convert_config,
\* init_dual_arm, set_tool_collision_models, add_collision_pairs, each ending
\* the method with False when it fails; then check_collision_pairs, whose
\* failure is printed and ignored.  rInit, rTool, rPair, rCheck say which
\* engine calls raise.
initialize(doc, tools, params, rInit, rTool, rPair, rCheck) ==
    LET lc == load_config(doc)
        cc == convert_config(lc.config, params)
        ia == init_dual_arm(cc.init_params, rInit)
        st == set_tool_collision_models(tools, rTool)
        ap == add_collision_pairs(rPair)
        cp == check_collision_pairs(rCheck)
    IN  IF ~lc.ok
        THEN Initialized(FALSE, "load_config", lc.err, lc.config, params, <<>>)
        ELSE IF ~cc.ok
        THEN Initialized(FALSE, "convert_config", "none", cc.config, cc.init_params, <<>>)
        ELSE IF ~ia.ok
        THEN Initialized(FALSE, "init_dual_arm", "none", cc.config, cc.init_params, ia.calls)
        ELSE IF ~st.ok
        THEN Initialized(FALSE, "set_tool_collision_models", "none", cc.config,
                         cc.init_params, ia.calls \o st.calls)
        ELSE IF ~ap.ok
        THEN Initialized(FALSE, "add_collision_pairs", "none", cc.config,
                         cc.init_params, ia.calls \o st.calls \o ap.calls)
        ELSE Initialized(TRUE, "done", "none", cc.config, cc.init_params,
                         ia.calls \o st.calls \o ap.calls \o cp.calls)

\* ------------------------------------------------- engine: pair registry
SamePair(p, q) == p = q \/ (p[1] = q[2] /\ p[2] = q[1])

\* A registry that appends whatever it is given.
set_collision_Pair_appending(reg, p) == Append(reg, p)

\* dac.set_collision_Pair: the registry is a set of unordered pairs, kept in
\* the order of first installation.
set_collision_Pair(reg, p) ==
    IF \E i \in 1..Len(reg) : SamePair(reg[i], p) THEN reg ELSE Append(reg, p)

\* The registry after the engine calls `calls`, those that raised left out.
RECURSIVE Installed(_, _)
Installed(reg, calls) ==
    IF calls = <<>> THEN reg
    ELSE LET c == Head(calls)
         IN  Installed(IF c.op = "set_collision_Pair" /\ ~c.raised
                       THEN set_collision_Pair(reg, c.args) ELSE reg,
                       Tail(calls))

\* The pairs dac.check_collision reports when the bodies of the pairs in
\* `touching` are in contact: those of the registry, each once.
ReportedPairs(reg, touching) == SelectSeq(reg, LAMBDA p : p \in touching)

\* ------------------------------------------------------- server: startup
\* CollisionDetectionServer.__init__: the tool description is loaded, then
\* initialize() runs and its result is dropped.  joint_pos holds the initial
\* joint values once init_dual_arm has been entered.
Construct ==
    /\ spc = "new"
    /\ \E rInit \in BOOLEAN, rTool \in 0..2, rPair \in 0..Len(collision_pairs),
          rCheck \in BOOLEAN :
         LET tc == load_tool_config(toolFile)
             i == initialize(jsonFile, tc, init_params, rInit, rTool, rPair, rCheck)
             entered == i.stage \notin {"load_config", "convert_config"}
             engineUp == \E k \in 1..Len(i.calls) :
                            i.calls[k].op = "init_dual_arm" /\ ~i.calls[k].raised
         IN  /\ tool_config' = <<tc>>
             /\ config' = i.config
             /\ init_params' = i.init_params
             /\ dacCalls' = i.calls
             /\ registry' = Installed(registry, i.calls)
             /\ ret' = Returned("initialize", i.ok, i.stage, i.err)
             /\ joint_pos' = IF entered THEN InitialJointPos ELSE joint_pos
             /\ engineJoints' = IF engineUp
                                THEN [pos |-> InitialJointPos, vel |-> ZeroJoints]
                                ELSE engineJoints
    /\ spc' = "constructed"
    /\ UNCHANGED <<clientVars, net, envVars, joint_vel, worker, jsonFile, toolFile>>

\* start() up to its accept loop, whatever initialize() returned: bind and
\* listen, or an exception there and stop().
StartServer ==
    /\ spc = "constructed"
    /\ \E bound \in BOOLEAN :
         /\ spc' = IF bound THEN "serving" ELSE "stopped"
         /\ serverUp' = bound
    /\ UNCHANGED <<clientVars, net, srvStalled, srvVars, jsonFile, toolFile, config,
                   init_params, tool_config, ret, dacCalls, registry>>

StartupNext == Construct \/ StartServer

\* A KeyboardInterrupt reaches the main thread in its accept loop: the
\* finally of start() runs stop(), which clears `running` and closes the
\* listening socket; connections nobody accepted are gone with it.
Stop ==
    /\ spc = "serving"
    /\ spc' = "stopped"
    /\ serverUp' = FALSE
    /\ net' = [c \in Conns |->
                IF net[c].sstate = "Backlog" THEN ServerClose(net[c]) ELSE net[c]]
    /\ UNCHANGED <<clientVars, srvStalled, srvVars, jsonFile, toolFile, config,
                   init_params, tool_config, ret, dacCalls, registry>>

\* The main thread leaves __main__ and the process ends: the workers are
\* daemon threads and end with it, their sockets are closed.
Exit ==
    /\ spc = "stopped"
    /\ spc' = "exited"
    /\ net' = [c \in Conns |->
                IF net[c].sstate = "Receiving" THEN ServerClose(net[c]) ELSE net[c]]
    /\ UNCHANGED <<clientVars, envVars, srvVars, jsonFile, toolFile, config,
                   init_params, tool_config, ret, dacCalls, registry>>

\* ------------------------------------------- the startup steps, one by one
\* The loader called on the caller's configuration object.
ReadModel ==
    /\ spc = "new"
    /\ config # None
    /\ LET r == read_dual_arm_self_collision_model_from_json(jsonFile, config[1])
       IN  /\ config' = <<r.config>>
           /\ ret' = Returned("read_dual_arm_self_collision_model_from_json",
                              r.err = "none", "none", r.err)
    /\ UNCHANGED <<clientVars, net, envVars, srvVars, spc, jsonFile, toolFile,
                   init_params, tool_config, dacCalls, registry>>

LoadConfig ==
    /\ spc = "new"
    /\ LET r == load_config(jsonFile)
       IN  /\ config' = r.config
           /\ ret' = Returned("load_config", r.ok, "none", r.err)
    /\ UNCHANGED <<clientVars, net, envVars, srvVars, spc, jsonFile, toolFile,
                   init_params, tool_config, dacCalls, registry>>

ConvertConfig ==
    /\ spc = "new"
    /\ LET r == convert_config(config, init_params)
       IN  /\ config' = r.config
           /\ init_params' = r.init_params
           /\ ret' = Returned("convert_config", r.ok, "none", "none")
    /\ UNCHANGED <<clientVars, net, envVars, srvVars, spc, jsonFile, toolFile,
                   tool_config, dacCalls, registry>>

InitDualArm ==
    /\ spc = "new"
    /\ dacCalls = <<>>
    /\ \E raises \in BOOLEAN :
         LET r == init_dual_arm(init_params, raises)
         IN  /\ dacCalls' = r.calls
             /\ ret' = Returned("init_dual_arm", r.ok, "none", "none")
             /\ engineJoints' = IF r.ok THEN [pos |-> InitialJointPos, vel |-> ZeroJoints]
                                ELSE engineJoints
    /\ joint_pos' = InitialJointPos
    /\ UNCHANGED <<clientVars, net, envVars, joint_vel, worker, spc, jsonFile, toolFile,
                   config,
                   init_params, tool_config, registry>>

LoaderNext == ReadModel \/ LoadConfig \/ ConvertConfig \/ InitDualArm

LoadToolConfig ==
    /\ spc = "new"
    /\ tool_config' = <<load_tool_config(toolFile)>>
    /\ ret' = Returned("load_tool_config", TRUE, "none", "none")
    /\ UNCHANGED <<clientVars, net, envVars, srvVars, spc, jsonFile, toolFile, config,
                   init_params, dacCalls, registry>>

SetToolModels ==
    /\ spc = "new"
    /\ tool_config # None
    /\ dacCalls = <<>>
    /\ \E raisesAt \in 0..2 :
         LET r == set_tool_collision_models(tool_config[1], raisesAt)
         IN  /\ dacCalls' = r.calls
             /\ ret' = Returned("set_tool_collision_models", r.ok, "none", "none")
    /\ UNCHANGED <<clientVars, net, envVars, srvVars, spc, jsonFile, toolFile, config,
                   init_params, tool_config, registry>>

ToolNext == LoadToolConfig \/ SetToolModels

\* The engine's add_collision_pair called by whoever drives it.
InstallablePairs == {<<-1, 2>>, <<2, -1>>, <<6, 16>>, <<6, 11>>}

InstallPair(p) ==
    /\ Len(dacCalls) < MaxInstalls
    /\ dacCalls' = Append(dacCalls, DacCall("set_collision_Pair", p, FALSE))
    /\ registry' = set_collision_Pair(registry, p)
    /\ UNCHANGED <<clientVars, net, envVars, srvVars, spc, jsonFile, toolFile, config,
                   init_params, tool_config, ret>>

EngineNext == \E p \in InstallablePairs : InstallPair(p)

\* -------------------------------------------------------------- environment
\* The server process stops making progress (it keeps its sockets open).
Stall ==
    /\ ~srvStalled
    /\ srvStalled' = TRUE
    /\ UNCHANGED <<clientVars, net, serverUp, srvVars, bootVars>>

\* The listening socket becomes unreachable / reachable for new connections.
ServerDown ==
    /\ serverUp
    /\ serverUp' = FALSE
    /\ UNCHANGED <<clientVars, net, srvStalled, srvVars, bootVars>>

ServerUp ==
    /\ ~serverUp
    /\ serverUp' = TRUE
    /\ UNCHANGED <<clientVars, net, srvStalled, srvVars, bootVars>>

\* Connection c is reset by the network.
NetReset(c) ==
    /\ net[c].cliOpen
    /\ net[c].sstate # "Closed"
    /\ ~net[c].reset
    /\ net' = [net EXCEPT ![c].reset = TRUE]
    /\ UNCHANGED <<clientVars, envVars, srvVars, bootVars>>

EnvNext == Stall \/ ServerDown \/ ServerUp \/ \E c \in Conns : NetReset(c)

ServerNext == \E c \in Conns : Accept(c) \/ HandleClient(c)

\* ------------------------------------------------------------ specification
\* The client before start(), no connection anywhere.
Unstarted ==
    /\ cpc = "init"
    /\ running = FALSE
    /\ csock = NoSock
    /\ collision_detected = FALSE
    /\ lastReq = "none"
    /\ cev = <<>>
    /\ hbFailed = FALSE
    /\ armConnected = [a \in Arms |-> FALSE]
    /\ net = [c \in Conns |-> IdleConn]
    /\ srvStalled = FALSE

\* The server process before __init__: joint_pos and joint_vel are new
\* dualarm_tagAXISPOS_REF structures, the engine has been told nothing.
NotBooted ==
    /\ spc = "new"
    /\ init_params = None
    /\ tool_config = None
    /\ ret = NoReturn
    /\ dacCalls = <<>>
    /\ registry = <<>>
    /\ joint_pos = ZeroJoints
    /\ joint_vel = ZeroJoints
    /\ worker = [c \in Conns |-> IdleWorker]
    /\ engineJoints = [pos |-> ZeroJoints, vel |-> ZeroJoints]

\* A server that came up on a complete description without a tool file and
\* without an engine failure, and is in its accept loop.
Booted ==
    LET tc == load_tool_config(ToolDocument("missing", NoTool, NoTool))
        i == initialize(FullDocument("object"), tc, None, FALSE, 0, 0, FALSE)
    IN  /\ spc = "serving"
        /\ jsonFile = FullDocument("object")
        /\ toolFile = ToolDocument("missing", NoTool, NoTool)
        /\ config = i.config
        /\ init_params = i.init_params
        /\ tool_config = <<tc>>
        /\ ret = Returned("initialize", i.ok, i.stage, i.err)
        /\ dacCalls = i.calls
        /\ registry = Installed(<<>>, i.calls)

Init ==
    /\ armConnected \in [Arms -> BOOLEAN]
    /\ cpc = "init"
    /\ running = FALSE
    /\ csock = NoSock
    /\ collision_detected = FALSE
    /\ lastReq = "none"
    /\ cev = <<>>
    /\ hbFailed = FALSE
    /\ net = [c \in Conns |-> IdleConn]
    /\ serverUp \in BOOLEAN
    /\ srvStalled = FALSE
    /\ joint_pos = InitialJointPos
    /\ joint_vel = ZeroJoints
    /\ worker = [c \in Conns |-> IdleWorker]
    /\ engineJoints = [pos |-> InitialJointPos, vel |-> ZeroJoints]
    /\ Booted

\* The intended deployment: one Telemetry Client on one Monitoring Server.
Next == ClientNext \/ ServerNext \/ EnvNext

Spec == Init /\ [][Next]_vars

\* A tick in which the SDK answers all four reads.
TelemetryAvailable == \E rd \in {r \in AllReads : Available(r)} : SendJointDataWith(rd)

\* The same system with the scheduling the code relies on: the client thread
\* and the server's threads run whenever they can; the 5 s interval elapses
\* again and again; the SDK of a connected arm answers again and again.
FairSpec ==
    /\ Spec
    /\ WF_vars(ClientNext)
    /\ SF_vars(HeartbeatCheckWith(TRUE))
    /\ SF_vars(TelemetryAvailable)
    /\ \A c \in Conns : WF_vars(Accept(c)) /\ WF_vars(HandleClient(c))

\* The Monitoring Server facing a foreign peer, the client not started.
ServerSpecNext == ServerNext \/ PeerNext \/ EnvNext

ServerSpec == Init /\ [][ServerSpecNext]_vars

\* The Monitoring Server from process start, facing a peer that speaks the
\* protocol or sends text that is no JSON.
StartupDocuments ==
    {EmptyDocument("missing"), EmptyDocument("unparsable"), FullDocument("object")}

StartupToolDocuments ==
    {ToolDocument("missing", NoTool, NoTool),
     ToolDocument("object", [NoTool EXCEPT !.present = TRUE, !.radius = Given(5)], NoTool)}

StartupRequests == {PingMsg, JointDataMsg(PeerJoints, PeerJoints), RawRequest("bad_json")}

StartupInit ==
    /\ Unstarted
    /\ NotBooted
    /\ serverUp = FALSE
    /\ jsonFile \in StartupDocuments
    /\ toolFile \in StartupToolDocuments
    /\ config = None

StartupPeerNext ==
    \/ PeerConnect
    \/ \E c \in Conns : PeerRecv(c) \/ PeerClose(c)
                          \/ \E m \in StartupRequests : PeerSend(c, m)

StartupSpecNext == StartupNext \/ ServerNext \/ StartupPeerNext

StartupSpec == StartupInit /\ [][StartupSpecNext]_vars

\* The Monitoring Server, facing a foreign peer, is stopped at some moment;
\* its threads run whenever they can and the main thread goes on to the end
\* of the program.
StopSpecNext == ServerNext \/ PeerNext \/ Stop \/ Exit

StopSpec ==
    /\ Init
    /\ [][StopSpecNext]_vars
    /\ WF_vars(Exit)
    /\ \A c \in Conns : WF_vars(Accept(c)) /\ WF_vars(HandleClient(c))

\* The Monitoring Server with several peers connected at once, its worker
\* threads interleaved.
RaceSpec == Init /\ [][RaceNext]_vars

\* The loader and the marshaller on every document.
LoaderInit ==
    /\ Unstarted
    /\ NotBooted
    /\ serverUp = FALSE
    /\ jsonFile \in Documents
    /\ toolFile = ToolDocument("missing", NoTool, NoTool)
    /\ config \in {None, <<FilledConfiguration>>}

LoaderSpec == LoaderInit /\ [][LoaderNext]_vars

\* The tool setup on every tool description.
ToolInit ==
    /\ Unstarted
    /\ NotBooted
    /\ serverUp = FALSE
    /\ jsonFile = EmptyDocument("missing")
    /\ toolFile \in ToolDocuments
    /\ config = None

ToolSpec == ToolInit /\ [][ToolNext]_vars

\* The engine's pair registry on every short run of installations.
EngineInit ==
    /\ Unstarted
    /\ NotBooted
    /\ serverUp = FALSE
    /\ jsonFile = EmptyDocument("missing")
    /\ toolFile = ToolDocument("missing", NoTool, NoTool)
    /\ config = None

EngineSpec == EngineInit /\ [][EngineNext]_vars

\* =================================================================== claims
HasEv(e) == \E i \in 1..Len(cev) : cev[i].ev = e

StopAttemptedAfter(i, a) ==
    \E j \in (i + 1)..Len(cev) : cev[j].ev = "stop" /\ cev[j].arg = a

\* C1: whenever the client has processed a collision_result with
\* collision_detected true, the same step (so before the next telemetry tick)
\* has invoked the stop command on every arm whose connected flag is true, the
\* right arm also when the stop of the left arm failed.
C1_StopEveryConnectedArm ==
    \A i \in 1..Len(cev) :
        cev[i].ev = "collision" =>
            /\ cpc = "hb_check"
            /\ collision_detected
            /\ \A a \in Arms : armConnected[a] => StopAttemptedAfter(i, a)

\* A collision verdict was processed, the stop of the left arm failed and the
\* stop of the right arm was attempted all the same.
C1_Witness ==
    /\ HasEv("collision")
    /\ \E i \in 1..Len(cev) : cev[i] = ArgEv("stop", Left, FALSE)
    /\ \E j \in 1..Len(cev) : cev[j].ev = "stop" /\ cev[j].arg = Right

TwelveOfLeftThenRight(m) ==
    /\ Len(m.pos) = NumJoints
    /\ Len(m.vel) = NumJoints
    /\ \E lp \in PositionReads(Left, TRUE) \ {None},
          rp \in PositionReads(Right, TRUE) \ {None} : m.pos = lp \o rp
    /\ \E lv \in VelocityReads(Left, TRUE) \ {None},
          rv \in VelocityReads(Right, TRUE) \ {None} : m.vel = lv \o rv

\* C2: a tick in which a position or velocity read of either arm is
\* unavailable (arm not connected, SDK error, wrong length) does not get as
\* far as sendall and leaves the client running; every joint_data message on
\* the wire carries 12 positions and 12 velocities, the left arm's 6 followed
\* by the right arm's 6.
C2_NoPartialFrame ==
    /\ \A i \in 1..Len(cev) :
         /\ cev[i].ev \in {"sent_joint_data", "send_error"} =>
              (cev[i].ok /\ \A a \in Arms : armConnected[a])
         /\ cev[i].ev = "skip" => (~cev[i].ok /\ cpc = "hb_check" /\ running)
    /\ \A c \in Conns : \A i \in 1..Len(net[c].req) :
         (net[c].owner = "client" /\ net[c].req[i].type = "joint_data") =>
             TwelveOfLeftThenRight(net[c].req[i])

\* Only the left arm is connected and the tick was skipped.
C2_Witness ==
    /\ armConnected[Left]
    /\ ~armConnected[Right]
    /\ HasEv("skip")
    /\ running

\* The worker of connection c is in recv, the connection is open at both
\* ends and a request is pending.
OpenRead(c) ==
    /\ net[c].sstate = "Receiving"
    /\ net[c].cliOpen
    /\ ~net[c].reset
    /\ net[c].req # <<>>

\* The step is the worker of connection c handling the request d it read.
Handles(c, d) == OpenRead(c) /\ RecvRequests(net[c].req) = d /\ HandleClient(c)

WellFormedJointData(d) ==
    /\ d.body = "object"
    /\ d.type = "joint_data"
    /\ d.has_pos /\ Len(d.pos) = NumJoints
    /\ d.has_vel /\ Len(d.vel) = NumJoints

IsVerdictReply(r) ==
    /\ r.body = "object"
    /\ r.type = "collision_result"
    /\ r.has_result
    /\ r.result.collision_detected \in BOOLEAN
    /\ r.result.colliding_pairs \in Seq(Int \X Int)
    /\ r.result.min_distance >= 0

IsErrorReply(r) == r.body = "object" /\ r.error # ""

\* The step leaves connection c in Receiving with exactly one more reply, r.
AnswersWith(c, r) ==
    /\ net'[c].sstate = "Receiving"
    /\ net'[c].req = <<>>
    /\ net'[c].rep = Append(net[c].rep, r)

C4_PingYieldsPong ==
    [][\A c \in Conns :
         Handles(c, PingMsg) =>
             (AnswersWith(c, PongMsg) /\ UNCHANGED srvVars)]_vars

\* A pong is waiting for the peer after the joint state has left its initial
\* value.
C4_Witness ==
    \E c \in Conns :
        /\ net[c].owner = "peer"
        /\ net[c].sstate = "Receiving"
        /\ net[c].rep # <<>>
        /\ net[c].rep[Len(net[c].rep)] = PongMsg
        /\ engineJoints.pos = PeerJoints

Malformed(d) ==
    \/ d.body \in {"bad_bytes", "bad_json", "non_object"}
    \/ d.body = "object" /\ d.type = "joint_data" /\ (~d.has_pos \/ ~d.has_vel)

\* C5 (as claimed): the worker handling a malformed body on an open
\* connection answers with an error payload and is back in Receiving.
C5_MalformedKeepsConnection ==
    [][\A c \in Conns : \A d \in PeerRequests :
         (Malformed(d) /\ Handles(c, d)) =>
             (/\ net'[c].sstate = "Receiving"
              /\ net'[c].rep # net[c].rep
              /\ IsErrorReply(net'[c].rep[Len(net'[c].rep)]))]_vars

OtherType(d) == d.body = "object" /\ d.type \notin {"joint_data", "ping"}

\* C6 (as claimed): the worker handling a JSON object whose type is neither
\* joint_data nor ping (or is missing) on an open connection answers with an
\* error payload and is back in Receiving.
C6_UnknownTypeYieldsError ==
    [][\A c \in Conns : \A d \in PeerRequests :
         (OtherType(d) /\ Handles(c, d)) =>
             (/\ net'[c].sstate = "Receiving"
              /\ Len(net'[c].rep) = Len(net[c].rep) + 1
              /\ IsErrorReply(net'[c].rep[Len(net'[c].rep)]))]_vars

\* C7 (as claimed): a step of the client that met a send or receive failure
\* on telemetry or on the heartbeat has invoked the stop command on every
\* connected arm.
C7_StopOnConnectionLoss ==
    \A i \in 1..Len(cev) :
        cev[i].ev \in {"send_error", "recv_error", "heartbeat_error"} =>
            \A a \in Arms : armConnected[a] => StopAttemptedAfter(i, a)

ExpectedReply(t) ==
    IF t = "joint_data" THEN "collision_result"
    ELSE IF t = "ping" THEN "pong"
    ELSE "nothing"

\* C10: on the client's connection at most one message is in flight (request
\* not yet read by the server, or reply not yet read by the client); while
\* the connection is alive the client is at a point where it sends only with
\* nothing in flight; and every reply it reads is of the type that answers
\* the last request it sent.
C10_OneRequestInFlight ==
    /\ csock.kind = "Open" =>
         LET r == net[csock.conn]
         IN  /\ Len(r.req) + Len(r.rep) <= 1
             /\ (cpc \in {"tick", "hb_check"} /\ ~r.reset) =>
                  (r.req = <<>> /\ r.rep = <<>>)
    /\ \A i \in 1..Len(cev) :
         cev[i].ev = "reply" => cev[i].arg = ExpectedReply(lastReq)

\* The client has read the pong that answers its ping, on a connection that
\* carried telemetry before.
C10_Witness ==
    /\ cev = <<ArgEv("reply", "pong", TRUE)>>
    /\ lastReq = "ping"
    /\ engineJoints.pos # InitialJointPos

ReconnectSteps(ok) ==
    <<Ev("heartbeat_error"), Ev("disconnect"), SleepEv(1), ArgEv("connect", "-", ok)>>

\* The network is quiet: the server is reachable and runs, both arms are
\* connected, no connection is reset.
Calm ==
    /\ serverUp
    /\ ~srvStalled
    /\ \A a \in Arms : armConnected[a]
    /\ \A c \in Conns : ~net[c].reset

\* C8: the step in which a heartbeat send or receive fails closes the socket,
\* sleeps 1 second and tries one connection, leaving the loop running on a
\* new connection if that succeeded; and from then on, if the network stays
\* quiet from some point, a joint_data message is eventually written to a new
\* connection.
C8_ReconnectAndResume ==
    /\ [](HasEv("heartbeat_error") =>
            /\ running
            /\ cpc = "tick"
            /\ \E ok \in BOOLEAN :
                 /\ cev = ReconnectSteps(ok)
                 /\ IF ok
                    THEN /\ csock.kind = "Open"
                         /\ net[csock.conn].owner = "client"
                         /\ net[csock.conn].cliOpen
                         /\ net[csock.conn].req = <<>>
                         /\ net[csock.conn].rep = <<>>
                    ELSE csock = UnconnectedSock)
    /\ [](hbFailed => running)
    /\ (<>[]Calm) => (hbFailed ~> ~hbFailed)

\* After a heartbeat failure a joint_data message has just been written to
\* the connection made by the reconnect.
C8_Witness ==
    /\ HasEv("sent_joint_data")
    /\ ~hbFailed
    /\ csock = OpenSock(2)
    /\ net[2].req # <<>>

RecvPositions == {"tel_recv", "hb_recv"}

\* C9 (as claimed): a client blocked in recv on a server that has stopped
\* answering eventually leaves the recv.
C9_NoIndefiniteBlock ==
    (cpc \in RecvPositions /\ srvStalled) ~> (cpc \notin RecvPositions)

\* The engine calls of startup that have the name op, in order.
CallsOf(op) == SelectSeq(dacCalls, LAMBDA c : c.op = op)

\* C11: once __init__ has run on a configuration file that is missing or
\* cannot be parsed, initialize() has returned False at load_config and no
\* engine init, tool-model setup or pair installation has been called, then
\* or later.
C11_NoEngineSetupAfterLoadFailure ==
    (spc # "new" /\ jsonFile.kind \in {"missing", "unparsable"}) =>
        /\ ret = Returned("initialize", FALSE, "load_config",
                          IF jsonFile.kind = "missing" THEN "open" ELSE "parse")
        /\ init_params = None
        /\ \A i \in 1..Len(dacCalls) :
             dacCalls[i].op \notin {"init_dual_arm", "set_toolcollisionmodel",
                                    "set_collision_Pair"}

\* The configuration file could not be parsed and the process went on to its
\* accept loop.
C11_Witness ==
    /\ jsonFile.kind = "unparsable"
    /\ spc = "serving"
    /\ ret.stage = "load_config"
    /\ dacCalls = <<>>

\* initialize() returned False because the configuration could not be loaded
\* or the engine's init raised.
FatalStartupFailure ==
    /\ ret.fn = "initialize"
    /\ ~ret.ok
    /\ ret.stage \in {"load_config", "init_dual_arm"}

\* C12 (as claimed): after a fatal startup failure no connection is accepted
\* and no joint_data reaches the engine.
C12_FatalStartupStopsServing ==
    FatalStartupFailure =>
        /\ \A c \in Conns : net[c].sstate \in {"Idle", "Backlog"}
        /\ joint_vel = ZeroJoints
        /\ worker = [c \in Conns |-> IdleWorker]

\* The order of installation the registry contract gives.
FixedOrder ==
    << <<-1, 2>>, <<-1, 3>>, <<-1, 4>>, <<-1, 5>>, <<-1, 6>>, <<-1, 12>>, <<-1, 13>>,
       <<-1, 14>>, <<-1, 15>>, <<-1, 16>>, <<1, 16>>, <<6, 16>>, <<6, 11>> >>

\* The install calls so far are the first calls of the fixed order, each
\* pair once, made after an engine init and two tool setups that succeeded.
InstalledInOrder ==
    LET pairs == CallsOf("set_collision_Pair")
    IN  /\ Len(pairs) <= Len(FixedOrder)
        /\ \A i \in 1..Len(pairs) : pairs[i].args = FixedOrder[i]
        /\ pairs # <<>> =>
             /\ Len(dacCalls) >= 3 + Len(pairs)
             /\ dacCalls[1].op = "init_dual_arm" /\ ~dacCalls[1].raised
             /\ \A k \in 2..3 :
                  dacCalls[k].op = "set_toolcollisionmodel" /\ ~dacCalls[k].raised
             /\ \A i \in 1..Len(pairs) : dacCalls[3 + i] = pairs[i]
        /\ (ret.fn = "initialize" /\ ret.ok) =>
             /\ Len(pairs) = Len(FixedOrder)
             /\ registry = FixedOrder

\* C13: the pairs are installed once, after engine init and tool setup have
\* succeeded, in the fixed order; and once the server serves, no step (no
\* joint_data, ping or malformed message) installs or removes a pair.
C13_PairsInstalledOnceInOrder ==
    /\ []InstalledInOrder
    /\ [][spc = "serving" => (dacCalls' = dacCalls /\ registry' = registry)]_vars

\* All 13 pairs are installed and the server has since handled a joint_data
\* request.
C13_Witness ==
    /\ spc = "serving"
    /\ Len(CallsOf("set_collision_Pair")) = 13
    /\ registry = FixedOrder
    /\ engineJoints.pos = PeerJoints

VerificationFailed ==
    \E i \in 1..Len(dacCalls) :
        dacCalls[i].op = "check_collision_Pair" /\ dacCalls[i].raised

\* C14: when the verification call after the installation has failed,
\* initialize() has still returned True with every pair installed, and the
\* process goes on to its accept loop.
C14_VerificationFailureNotFatal ==
    VerificationFailed =>
        /\ ret = Returned("initialize", TRUE, "done", "none")
        /\ registry = FixedOrder
        /\ spc = "constructed" => ENABLED StartServer
        /\ spc # "new"

\* The verification failed and the server has answered a ping.
C14_Witness ==
    /\ VerificationFailed
    /\ spc = "serving"
    /\ \E c \in Conns : net[c].sstate = "Receiving" /\ net[c].rep = <<PongMsg>>

\* s cut to n entries, or filled up with zeros on the right to n entries.
ZeroPadded(s, n) == [i \in 1..n |-> IF i <= Len(s) THEN s[i] ELSE 0]

LozengeVector(l) ==
    ZeroPadded(l.ref2local_frame, 6) \o ZeroPadded(l.geometry, 4) \o ZeroPadded(l.offset, 3)

CapsuleVector(c) == ZeroPadded(c.start, 3) \o ZeroPadded(c.end, 3) \o <<c.radius>>

BallVector(b) == ZeroPadded(b.offset, 3) \o <<b.radius>>

\* The geometry vectors of a parameter tuple have the lengths the engine
\* takes: DH 4, three lozenges 13, four capsules 7, the wrist ball 4.
FixedArity(p) ==
    /\ Len(p[2]) = 4
    /\ \A k \in 3..5 : Len(p[k]) = 13
    /\ \A k \in 6..9 : Len(p[k]) = 7
    /\ Len(p[10]) = 4

\* What the engine's init has been handed is of fixed arity, and so is
\* init_params; right after a conversion each vector is its sub-fields, each
\* cut or zero-filled to its own width.
MarshalledToFixedArity ==
    /\ \A i \in 1..Len(dacCalls) :
         dacCalls[i].op = "init_dual_arm" => FixedArity(dacCalls[i].args)
    /\ init_params # None => FixedArity(init_params[1])
    /\ (ret.fn = "convert_config" /\ ret.ok) =>
         LET c == config[1]
             p == init_params[1]
         IN  /\ p[2] = ZeroPadded(c.dh, 4)
             /\ p[3] = LozengeVector(c.platform)
             /\ p[4] = LozengeVector(c.head)
             /\ p[5] = LozengeVector(c.truck)
             /\ p[6] = CapsuleVector(c.L_base)
             /\ p[7] = CapsuleVector(c.L_lowerArm)
             /\ p[8] = CapsuleVector(c.L_elbow)
             /\ p[9] = CapsuleVector(c.L_upperArm)
             /\ p[10] = BallVector(c.L_wrist)

\* C15: every geometry vector handed to the engine's init has its fixed
\* arity (lozenge 13, capsule 7, ball 4, DH 4): a short or absent sub-field is
\* zero-filled on the right, an over-long one cut; and the engine is handed
\* init_params as the conversion left them.
C15_FixedArityVectors ==
    /\ []MarshalledToFixedArity
    /\ [][dacCalls' # dacCalls =>
            (init_params # None
               /\ \A k \in 1..10 : dacCalls'[1].args[k] = init_params[1][k])]_vars

\* The engine was initialised from a document without 'RobType' whose
\* platform has a short frame, a full geometry and no offset.
C15_Witness ==
    /\ dacCalls # <<>>
    /\ dacCalls[1].op = "init_dual_arm"
    /\ jsonFile.kind = "object"
    /\ ~jsonFile.RobType.present
    /\ ~jsonFile.platform.offset.present
    /\ config = load_config(jsonFile).config
    /\ dacCalls[1].args[2] = <<0, 0, 0, 0>>
    /\ dacCalls[1].args[3] = <<1, 2, 0, 0, 0, 0, 1, 2, 3, 4, 0, 0, 0>>

\* C16: convert_config changes no field of the configuration, and calling
\* it again on the configuration it has just converted returns True with the
\* same init_params.
C16_ConvertPureIdempotent ==
    /\ []((ret.fn = "convert_config" /\ ret.ok) =>
            convert_config(config, init_params)
              = [ok |-> TRUE, init_params |-> init_params, config |-> config])
    /\ [][ConvertConfig => config' = config]_vars

\* A configuration whose DH list is empty has been converted: the tuple has
\* four zeros, the configuration still has none.
C16_Witness ==
    /\ ret.fn = "convert_config"
    /\ ret.ok
    /\ config[1].dh = <<>>
    /\ init_params[1][2] = <<0, 0, 0, 0>>

\* The fields of a lozenge / capsule / ball of the configuration that the
\* document's section s does not give are [] (arrays) and 0 (radius).
LozengeDefaults(s, m) ==
    /\ ~s.ref2local_frame.present => m.ref2local_frame = <<>>
    /\ ~s.geometry.present => m.geometry = <<>>
    /\ ~s.offset.present => m.offset = <<>>

CapsuleDefaults(s, m) ==
    /\ ~s.start.present => m.start = <<>>
    /\ ~s.end.present => m.end = <<>>
    /\ ~s.radius.present => m.radius = 0

BallDefaults(s, m) ==
    /\ ~s.offset.present => m.offset = <<>>
    /\ ~s.radius.present => m.radius = 0

TheLoader == {"read_dual_arm_self_collision_model_from_json", "load_config"}

\* C17: when the loader has just run on a document that is a JSON object, it
\* has succeeded, and every array the document omits is [] and every radius
\* it omits is 0 in the configuration, whatever the configuration held before.
C17_MissingFieldsDefault ==
    (ret.fn \in TheLoader /\ jsonFile.kind = "object") =>
        /\ ret.ok
        /\ ret.err = "none"
        /\ config # None
        /\ LET c == config[1]
               d == jsonFile
           IN  /\ LozengeDefaults(d.platform, c.platform)
               /\ LozengeDefaults(d.truck, c.truck)
               /\ LozengeDefaults(d.head, c.head)
               /\ CapsuleDefaults(d.base, c.L_base)
               /\ CapsuleDefaults(d.l_lowerArm, c.L_lowerArm)
               /\ CapsuleDefaults(d.l_elbow, c.L_elbow)
               /\ CapsuleDefaults(d.l_upperArm, c.L_upperArm)
               /\ BallDefaults(d.l_wrist, c.L_wrist)
               /\ CapsuleDefaults(d.base, c.R_base)
               /\ CapsuleDefaults(d.r_lowerArm, c.R_lowerArm)
               /\ CapsuleDefaults(d.r_elbow, c.R_elbow)
               /\ CapsuleDefaults(d.r_upperArm, c.R_upperArm)
               /\ BallDefaults(d.r_wrist, c.R_wrist)

\* The loader was handed a filled-in configuration and a document with no
\* section at all: the old platform and radius are gone.
C17_Witness ==
    /\ ret.fn = "read_dual_arm_self_collision_model_from_json"
    /\ ret.ok
    /\ jsonFile = EmptyDocument("object")
    /\ config[1].robType = Elfin
    /\ config[1].platform.geometry = <<>>
    /\ config[1].L_base.radius = 0

ExpectedTool(tool, joint) ==
    IF toolFile.kind \in {"missing", "unreadable"} \/ ~tool.present
    THEN <<joint, <<0, 0, 0>>, <<0, 0, 0>>, 2>>
    ELSE <<IF tool.index.present THEN tool.index.val ELSE joint,
           IF tool.start.present THEN tool.start.val ELSE <<0, 0, 0>>,
           IF tool.end.present THEN tool.end.val ELSE <<0, 0, 0>>,
           IF tool.radius.present THEN tool.radius.val ELSE 2>>

\* C19: when the tool setup has run on a tool file that is missing,
\* unreadable or a JSON object, the engine was handed the left tool with
\* joint 6 and the right tool with joint 16 by default, start and end
\* (0,0,0) and radius 0.02 by default, field by field; the right tool
\* follows unless the left call raised.
C19_ToolDefaults ==
    (ret.fn = "set_tool_collision_models"
       /\ toolFile.kind \in {"missing", "unreadable", "object"}) =>
        /\ Len(dacCalls) \in {1, 2}
        /\ \A i \in 1..Len(dacCalls) : dacCalls[i].op = "set_toolcollisionmodel"
        /\ dacCalls[1].args = ExpectedTool(toolFile.L_tool, 6)
        /\ Len(dacCalls) = 2 <=> ~dacCalls[1].raised
        /\ Len(dacCalls) = 2 => dacCalls[2].args = ExpectedTool(toolFile.R_tool, 16)
        /\ ret.ok <=> \A i \in 1..Len(dacCalls) : ~dacCalls[i].raised

\* The tool file gives the left tool without a radius and no right tool,
\* and both tools have been set.
C19_Witness ==
    /\ ret.fn = "set_tool_collision_models"
    /\ ret.ok
    /\ toolFile.kind = "object"
    /\ toolFile.L_tool.present
    /\ toolFile.L_tool.index.present
    /\ ~toolFile.L_tool.radius.present
    /\ ~toolFile.R_tool.present
    /\ dacCalls[1].args[4] = 2
    /\ dacCalls[2].args = <<16, <<0, 0, 0>>, <<0, 0, 0>>, 2>>

\* No two entries of a sequence of pairs are the same unordered pair.
HeldOnce(s) ==
    \A i, j \in 1..Len(s) : (i # j) => ~SamePair(s[i], s[j])

\* C20: whatever pairs have been submitted, and however often, the registry
\* holds each pair once, and a collision check reports no pair twice,
\* whichever bodies are in contact.
C20_PairHeldOnce ==
    /\ HeldOnce(registry)
    /\ \A p \in InstallablePairs :
         (\E i \in 1..Len(dacCalls) : dacCalls[i].args = p) =>
            \E k \in 1..Len(registry) : SamePair(registry[k], p)
    /\ \A touching \in SUBSET InstallablePairs :
         HeldOnce(ReportedPairs(registry, touching))

\* The pair (-1, 2) was submitted twice in a row and is held once.
C20_Witness ==
    /\ Len(dacCalls) >= 2
    /\ dacCalls[1].args = <<-1, 2>>
    /\ dacCalls[2].args = <<-1, 2>>
    /\ registry = << <<-1, 2>> >>


NamesDualArm(doc) ==
    doc.RobType.present /\ doc.RobType.val \in {"dual_arm", "hans_dual_arm_v2"}

\* C29: whenever load_config has accepted a document, the robot type is
\* DualArm, with or without "dual_arm" in 'RobType'; the DH values are d1,
\* d4, d6, a2 of the document (0 for one it omits) when 'RobType' contains
\* "dual_arm" and are not read otherwise, and the conversion that follows then
\* hands the engine four zeros, even if the document has a 'DH' section.
C29_RobTypeAndDH ==
    /\ (ret.fn = "load_config" /\ ret.ok) =>
          /\ config[1].robType = 2
          /\ config[1].dh =
               IF NamesDualArm(jsonFile)
               THEN <<IF jsonFile.DH.d1.present THEN jsonFile.DH.d1.val ELSE 0,
                      IF jsonFile.DH.d4.present THEN jsonFile.DH.d4.val ELSE 0,
                      IF jsonFile.DH.d6.present THEN jsonFile.DH.d6.val ELSE 0,
                      IF jsonFile.DH.a2.present THEN jsonFile.DH.a2.val ELSE 0>>
               ELSE <<>>
    /\ (ret.fn = "convert_config" /\ ret.ok /\ config = load_config(jsonFile).config
          /\ jsonFile.kind = "object" /\ ~NamesDualArm(jsonFile)) =>
          /\ init_params[1][1] = 2
          /\ init_params[1][2] = <<0, 0, 0, 0>>

\* A document whose 'RobType' is "Elfin" and whose 'DH' section is complete
\* has been loaded and converted.
C29_Witness ==
    /\ ret.fn = "convert_config"
    /\ ret.ok
    /\ jsonFile.kind = "object"
    /\ jsonFile.RobType = Given("Elfin")
    /\ jsonFile.DH.d1.present
    /\ config = load_config(jsonFile).config
    /\ init_params[1][1] = 2
    /\ init_params[1][2] = <<0, 0, 0, 0>>


\* A worker of the server has ended in this step.
WorkerEnds(c) ==
    /\ net[c].sstate = "Receiving"
    /\ net'[c].sstate \in {"Closed", "Idle"}

\* C21: no failure of a read, a send, a receive, a parse, a heartbeat, a
\* stop command or a reconnect ends the client's loop: the client is stopped
\* only if its first connection attempt failed, and runs otherwise.  The
\* server stays in its accept loop, and a step in which one connection's
\* worker ends leaves every other connection as it was.
C21_ErrorsEndNoProcess ==
    /\ [](/\ cpc = "stopped" => cev = <<ArgEv("connect", "-", FALSE)>>
          /\ cpc \notin {"init", "stopped"} => running
          /\ spc = "serving")
    /\ [][\A c \in Conns :
            WorkerEnds(c) =>
                /\ spc' = "serving"
                /\ \A d \in Conns \ {c} : net'[d] = net[d]]_vars

\* A heartbeat has failed and the reconnect after it has failed too: the
\* client is at its next tick.
C21_Witness ==
    /\ running
    /\ cpc = "tick"
    /\ HasEv("heartbeat_error")
    /\ \E i \in 1..Len(cev) : cev[i].ev = "connect" /\ ~cev[i].ok
    /\ csock = UnconnectedSock
    /\ spc = "serving"

\* Both arms connected at construction.
DualArmMode == armConnected[Left] /\ armConnected[Right]

\* C26: the connected flags never change after construction; and when an
\* arm is not connected, the client runs on but no joint_data message is
\* written or in flight and no stop command is issued.
C26_DegradedModeSendsNothing ==
    /\ [](~DualArmMode =>
            /\ cpc \notin {"init", "stopped"} => running
            /\ cpc # "tel_recv"
            /\ lastReq # "joint_data"
            /\ \A i \in 1..Len(cev) :
                 cev[i].ev \notin {"sent_joint_data", "collision", "stop"}
            /\ \A c \in Conns : \A k \in 1..Len(net[c].req) :
                 net[c].req[k].type # "joint_data"
            /\ ~collision_detected)
    /\ [][armConnected' = armConnected]_vars

\* Only the left arm is connected; a heartbeat has been answered.
C26_Witness ==
    /\ armConnected[Left]
    /\ ~armConnected[Right]
    /\ running
    /\ cev = <<ArgEv("reply", "pong", TRUE)>>

\* C28: the client's socket changes only in start()'s first connect and in
\* a step whose heartbeat raised, which disconnects and tries to connect
\* once; a failed joint_data send, a failed or empty read and a failed
\* reconnect are followed by no reconnect of their own.  While the socket is
\* not connected no telemetry is written and no verdict is processed.
C28_OnlyHeartbeatReconnects ==
    /\ [](csock.kind # "Open" =>
            \A i \in 1..Len(cev) :
               cev[i].ev \notin {"sent_joint_data", "clear", "collision"})
    /\ [][/\ csock' # csock =>
               \/ cpc = "init"
               \/ /\ cpc \in {"hb_check", "hb_recv"}
                  /\ cev'[1].ev = "heartbeat_error"
          /\ (cev' # cev /\ cpc # "init") =>
               Len(SelectSeq(cev', LAMBDA e : e.ev = "connect"))
                 = (IF cev'[1].ev = "heartbeat_error" THEN 1 ELSE 0)]_vars

\* After a failed reconnect a telemetry tick has failed on the unconnected
\* socket, which is still there.
C28_Witness ==
    /\ csock = UnconnectedSock
    /\ hbFailed
    /\ cpc = "hb_check"
    /\ cev = <<ArgEv("send_error", "-", TRUE)>>


\* C23 (as claimed): a step that changes joint_pos or joint_vel leaves both
\* equal to the vectors of the joint_data message being handled.
C23_WholesaleOverwrite ==
    [][\/ UNCHANGED <<joint_pos, joint_vel>>
       \/ \E c \in Conns :
            /\ net[c].req # <<>>
            /\ RecvRequests(net[c].req).type = "joint_data"
            /\ joint_pos' = RecvRequests(net[c].req).pos
            /\ joint_vel' = RecvRequests(net[c].req).vel]_vars

\* The worker of connection c, whose peer is there, reads a joint_data
\* request with both vectors in this step.
HandlesJointData(c) ==
    /\ net[c].sstate = "Receiving"
    /\ net[c].cliOpen
    /\ ~net[c].reset
    /\ net[c].req # <<>>
    /\ net'[c].req = <<>>
    /\ LET d == RecvRequests(net[c].req)
       IN  d.body = "object" /\ d.type = "joint_data" /\ d.has_pos /\ d.has_vel

\* The update of this step raised: the engine does not hold the request's
\* joint state.
UpdateRaised(c) ==
    LET d == RecvRequests(net[c].req)
    IN  engineJoints' # [pos |-> d.pos, vel |-> d.vel]

\* The step has added one collision_result reply on c and left the worker in
\* its loop.
RepliesVerdict(c) ==
    /\ net'[c].sstate = "Receiving"
    /\ Len(net'[c].rep) = Len(net[c].rep) + 1
    /\ net'[c].rep[Len(net'[c].rep)].type = "collision_result"
    /\ net'[c].rep[Len(net'[c].rep)].has_result

VerdictOf(c) == net'[c].rep[Len(net'[c].rep)].result

StoppedQuiet ==
    /\ spc = "stopped"
    /\ \A c \in Conns : net[c].req = <<>> /\ net[c].rep = <<>>

\* No verdict is on its way to a peer.
NoVerdictInFlight ==
    \A c \in Conns : \A k \in 1..Len(net[c].rep) :
        net[c].rep[k].type # "collision_result"

\* C24 (as claimed): once the stop flag is set every worker ends, and from
\* a moment at which the flag is set and nothing is in flight, no joint_data
\* request is dispatched any more, so no verdict is ever written again.
C24_StopEndsWorkers ==
    /\ (spc = "stopped") ~> (\A c \in Conns : net[c].sstate # "Receiving")
    /\ [](StoppedQuiet => []NoVerdictInFlight)


\* Worker c runs its check in this step.
Checks(c) == worker[c].at = "check" /\ worker'[c].at = "recv"

\* The values connection d sends for joint i.
SentBy(d, i) == {JointDataOf(d).pos[i], JointDataOf(d).vel[i]}

\* C22: the joint-state update and the check that follows it are separate
\* steps on state shared by all workers, so a check can run on a state its
\* own connection did not send; whatever it runs on after its own update
\* went through is made, value by value, of what the connections sent.
C22_CheckRunsOnSharedState ==
    [][\A c \in Conns :
         Checks(c) /\ worker[c].pushed =>
           /\ \A i \in 1..NumJoints :
                /\ engineJoints.pos[i] \in UNION {SentBy(d, i) : d \in Conns}
                /\ engineJoints.vel[i] \in UNION {SentBy(d, i) : d \in Conns}
           /\ worker'[c].last = RanOn(engineJoints, JointDataOf(c))
           /\ ((\A d \in Conns \ {c} : net[d].owner = "none") =>
                 worker'[c].last = "own")]_vars

\* A worker whose update went through has run its check on a state that
\* mixes its own connection's values with another connection's.
C22_Witness ==
    \E c \in Conns :
        /\ worker[c].at = "recv"
        /\ worker[c].pushed
        /\ worker[c].last = "mixed"
        /\ \E k \in 1..Len(net[c].rep) : net[c].rep[k].type = "collision_result"

====
